---- MODULE Spec2Model ----
(***************************************************************************)
(* Certificate verification: the entity-extraction pipeline                *)
(* (src/ner/ner_service.py), the matching engine                           *)
(* (src/services/intelligent_verification.py), the rate limiter of the     *)
(* upload route (src/core/rate_limiting.py) and the upload, verification   *)
(* and statistics handlers of the v2 API (src/api/routes_v2.py,            *)
(* src/services/upload_service.py).                                        *)
(*                                                                         *)
(* Python strings are TLA+ strings; a character is a string of length 1.   *)
(* Only ASCII text is modelled.                                            *)
(***************************************************************************)
EXTENDS Integers, Sequences, FiniteSets, TLC

(***************************************************************************)
(* Python values                                                           *)
(***************************************************************************)
\* None where a str is expected, None where a dict is expected, and {}
None == "<None>"
NoneDict == [none |-> TRUE]
EmptyDict == [k \in {} |-> 0]
\* truth value of an Optional[str]
Truthy(v) == v # None /\ v # ""
\* dict.get(k, default)
DictGet(d, k, default) == IF k \in DOMAIN d THEN d[k] ELSE default

(***************************************************************************)
(* Python str primitives                                                   *)
(***************************************************************************)
Uppers == "ABCDEFGHIJKLMNOPQRSTUVWXYZ"
Lowers == "abcdefghijklmnopqrstuvwxyz"
Digits == "0123456789"
\* ASCII order of the characters the model uses (for sorted() and <).
AsciiOrder == "\t\n !#&'(),-./0123456789:;ABCDEFGHIJKLMNOPQRSTUVWXYZ_abcdefghijklmnopqrstuvwxyz{}"

At(s, i) == SubSeq(s, i, i)
CharsOf(s) == {At(s, i) : i \in 1..Len(s)}
IndexIn(s, c) == CHOOSE i \in 1..Len(s) : At(s, i) = c

UpperSet == CharsOf(Uppers)
LowerSet == CharsOf(Lowers)
DigitSet == CharsOf(Digits)
SpaceSet == {" ", "\n", "\t"}
LowerOf == [c \in UpperSet |-> At(Lowers, IndexIn(Uppers, c))]
UpperOf == [c \in LowerSet |-> At(Uppers, IndexIn(Lowers, c))]
Ord == [c \in CharsOf(AsciiOrder) |-> IndexIn(AsciiOrder, c)]

isalpha_char(c) == c \in UpperSet \cup LowerSet
isdigit_char(c) == c \in DigitSet
isspace_char(c) == c \in SpaceSet
\* \w of the re module on ASCII text
isword_char(c) == isalpha_char(c) \/ isdigit_char(c) \/ c = "_"

RECURSIVE MapChars(_, _, _, _)
\* the characters lo..hi of s, each one replaced by its image under f
MapChars(s, lo, hi, f) ==
    IF lo > hi THEN ""
    ELSE IF lo = hi THEN (IF At(s, lo) \in DOMAIN f THEN f[At(s, lo)] ELSE At(s, lo))
    ELSE MapChars(s, lo, (lo + hi) \div 2, f) \o MapChars(s, (lo + hi) \div 2 + 1, hi, f)

\* str.lower(), str.upper()
lower(s) == MapChars(s, 1, Len(s), LowerOf)
upper(s) == MapChars(s, 1, Len(s), UpperOf)

\* str.isupper(): at least one cased character and no lower-case one
isupper(s) ==
    /\ \E i \in 1..Len(s) : At(s, i) \in UpperSet
    /\ \A i \in 1..Len(s) : At(s, i) \notin LowerSet

Min(S) == CHOOSE x \in S : \A y \in S : x <= y
Max(S) == CHOOSE x \in S : \A y \in S : y <= x

\* str.strip()
strip(s) ==
    LET keep == {i \in 1..Len(s) : ~isspace_char(At(s, i))}
    IN  IF keep = {} THEN "" ELSE SubSeq(s, Min(keep), Max(keep))

\* needle in haystack
Contains(haystack, needle) ==
    \E i \in 1..(Len(haystack) - Len(needle) + 1) :
        SubSeq(haystack, i, i + Len(needle) - 1) = needle

\* the pieces of s between the characters of seps, empty pieces included
SplitOn(s, seps) ==
    LET P == {i \in 1..Len(s) : At(s, i) \in seps}
        n == Cardinality(P)
        cut == [k \in 0..(n + 1) |->
                  IF k = 0 THEN 0
                  ELSE IF k = n + 1 THEN Len(s) + 1
                  ELSE CHOOSE i \in P : Cardinality({j \in P : j < i}) = k - 1]
    IN  [k \in 1..(n + 1) |-> SubSeq(s, cut[k - 1] + 1, cut[k] - 1)]
\* str.split('\n'): every piece, empty ones included
split_lines(s) == SplitOn(s, {"\n"})
\* str.split(): pieces between runs of whitespace, empty ones dropped
split(s) == SelectSeq(SplitOn(s, SpaceSet), LAMBDA t : t # "")

RECURSIVE join(_, _)
join(sep, parts) ==
    IF parts = <<>> THEN ""
    ELSE IF Len(parts) = 1 THEN parts[1]
    ELSE parts[1] \o sep \o join(sep, Tail(parts))

\* a < b on str (code-point order): decided at the first position where they differ
StrLess(a, b) ==
    LET n == IF Len(a) < Len(b) THEN Len(a) ELSE Len(b)
        differ == {i \in 1..n : At(a, i) # At(b, i)}
    IN  IF differ = {} THEN Len(a) < Len(b)
        ELSE Ord[At(a, Min(differ))] < Ord[At(b, Min(differ))]

RECURSIVE sorted(_)
\* sorted(set of str)
sorted(S) ==
    IF S = {} THEN <<>>
    ELSE LET m == CHOOSE x \in S : \A y \in S \ {x} : StrLess(x, y)
         IN  <<m>> \o sorted(S \ {m})

SeqToSet(q) == {q[i] : i \in 1..Len(q)}

(***************************************************************************)
(* re.search with re.IGNORECASE: a pattern is a sequence of items, matched *)
(* left to right with greedy repetition and backtracking, alternatives     *)
(* tried in the order written.                                             *)
(***************************************************************************)
Lit(str) == [k |-> "lit", str |-> str]                    \* literal text, any case
Cls(set, min, max) == [k |-> "cls", set |-> set, min |-> min, max |-> max]
                                                          \* class{min,max}; max -1: no limit
Alt(alts) == [k |-> "alt", alts |-> alts]                 \* (?:a|b|...)
Opt(items) == Alt(<<items, <<>>>>)                        \* (?:...)?
Grp == [k |-> "grp"]                                      \* opening of group 1
WordB == [k |-> "b"]                                      \* \b

AnyChar == CharsOf(AsciiOrder) \ {"\n"}                   \* .
Letters == UpperSet \cup LowerSet
WordSet == Letters \cup DigitSet \cup {"_"}               \* \w

\* \b at position i: exactly one of the characters around it is a word character
WordBoundary(s, i) ==
    (i > 1 /\ At(s, i - 1) \in WordSet) # (i <= Len(s) /\ At(s, i) \in WordSet)

\* how many characters from position i on belong to set, at most max of them
RunOf(s, i, set, max) ==
    LET stops == {j \in i..Len(s) : At(s, j) \notin set}
        run == (IF stops = {} THEN Len(s) + 1 ELSE Min(stops)) - i
    IN  IF max >= 0 /\ run > max THEN max ELSE run

RECURSIVE Match(_, _, _, _, _)
RECURSIVE TryCount(_, _, _, _, _, _, _)
RECURSIVE TryAlt(_, _, _, _, _, _, _)
\* items matched at position i of s (ls is s lower-cased; gs is where group 1 opened):
\* <<start of group 1, position after the match>>, or <<>> when there is no match
Match(items, s, ls, i, gs) ==
    IF items = <<>> THEN <<gs, i>>
    ELSE LET it == Head(items)
             rest == Tail(items)
         IN  CASE it.k = "grp" -> Match(rest, s, ls, i, i)
               [] it.k = "b" -> IF WordBoundary(s, i) THEN Match(rest, s, ls, i, gs) ELSE <<>>
               [] it.k = "lit" ->
                    IF i + Len(it.str) - 1 <= Len(ls) /\ SubSeq(ls, i, i + Len(it.str) - 1) = it.str
                    THEN Match(rest, s, ls, i + Len(it.str), gs)
                    ELSE <<>>
               [] it.k = "cls" -> TryCount(it, rest, s, ls, i, gs, RunOf(s, i, it.set, it.max))
               [] it.k = "alt" -> TryAlt(it.alts, rest, s, ls, i, gs, 1)
\* greedy repetition: the longest run of at most c characters after which the rest of
\* the pattern matches
TryCount(it, rest, s, ls, i, gs, c) ==
    LET fits == {n \in it.min..c : Match(rest, s, ls, i + n, gs) # <<>>}
    IN  IF fits = {} THEN <<>> ELSE Match(rest, s, ls, i + Max(fits), gs)
\* alternation: the first alternative, from number a on, after which the rest of the
\* pattern matches
TryAlt(alts, rest, s, ls, i, gs, a) ==
    LET fits == {n \in a..Len(alts) : Match(alts[n] \o rest, s, ls, i, gs) # <<>>}
    IN  IF fits = {} THEN <<>> ELSE Match(alts[Min(fits)] \o rest, s, ls, i, gs)

\* re.search(pattern, s, re.IGNORECASE).group(1): the leftmost match; None without a match
search_group(items, s) ==
    LET ls == lower(s)
        starts == {i \in 1..(Len(s) + 1) : Match(items, s, ls, i, i) # <<>>}
        m == Match(items, s, ls, Min(starts), Min(starts))
    IN  IF starts = {} THEN None ELSE SubSeq(s, m[1], m[2] - 1)

(***************************************************************************)
(* fuzzywuzzy.fuzz as called from intelligent_verification.py, on the      *)
(* pure-Python difflib.SequenceMatcher (autojunk is inert below 200 chars) *)
(***************************************************************************)
\* length of the common run of a[i:ahi] and b[j:bhi] (0-based, half-open)
RunLen(a, i, ahi, b, j, bhi) ==
    LET room == IF ahi - i < bhi - j THEN ahi - i ELSE bhi - j
        ends == {k \in 0..(room - 1) : At(a, i + k + 1) # At(b, j + k + 1)}
    IN  IF room <= 0 THEN 0
        ELSE IF At(a, i + 1) # At(b, j + 1) THEN 0
        ELSE IF ends = {} THEN room ELSE Min(ends)

\* SequenceMatcher.find_longest_match: the longest block, earliest in a, then in b
find_longest_match(a, b, alo, ahi, blo, bhi) ==
    LET P == (alo..(ahi - 1)) \X (blo..(bhi - 1))
        run == [p \in P |-> RunLen(a, p[1], ahi, b, p[2], bhi)]
    IN  IF \A p \in P : run[p] = 0 THEN <<alo, blo, 0>>
        ELSE LET k == CHOOSE n \in {run[p] : p \in P} : \A q \in P : run[q] <= n
                 i == CHOOSE x \in alo..(ahi - 1) :
                        /\ \E y \in blo..(bhi - 1) : run[<<x, y>>] = k
                        /\ \A x2 \in alo..(x - 1) : \A y \in blo..(bhi - 1) : run[<<x2, y>>] # k
                 j == CHOOSE y \in blo..(bhi - 1) :
                        /\ run[<<i, y>>] = k
                        /\ \A y2 \in blo..(y - 1) : run[<<i, y2>>] # k
             IN  <<i, j, k>>

RECURSIVE matching_size(_, _, _, _, _, _)
\* sum of the sizes of SequenceMatcher.get_matching_blocks()
matching_size(a, b, alo, ahi, blo, bhi) ==
    LET m == find_longest_match(a, b, alo, ahi, blo, bhi)
    IN  IF m[3] = 0 THEN 0
        ELSE m[3] + matching_size(a, b, alo, m[1], blo, m[2])
                  + matching_size(a, b, m[1] + m[3], ahi, m[2] + m[3], bhi)

\* utils.intr(100 * 2.0 * M / T): int(round(x)), ties to the even integer
intr_ratio(M, T) ==
    LET q == (200 * M) \div T
        r == (200 * M) % T
    IN  IF 2 * r > T THEN q + 1
        ELSE IF 2 * r < T THEN q
        ELSE IF q % 2 = 0 THEN q ELSE q + 1

\* fuzz.ratio with its decorators (equal -> 100, either empty -> 0)
fuzz_ratio(s1, s2) ==
    IF s1 = s2 THEN 100
    ELSE IF Len(s1) = 0 \/ Len(s2) = 0 THEN 0
    ELSE intr_ratio(matching_size(s1, s2, 0, Len(s1), 0, Len(s2)), Len(s1) + Len(s2))

\* re.sub(r"(?ui)\W", " ", s): every non-word character becomes a space
SpaceOf == [c \in CharsOf(AsciiOrder) \ WordSet |-> " "]
NonWordToSpace(s) == MapChars(s, 1, Len(s), SpaceOf)
\* utils.full_process: non-word characters to spaces, lower-case, strip
full_process(s) == strip(lower(NonWordToSpace(s)))

Max2(x, y) == IF x >= y THEN x ELSE y

\* fuzz.token_set_ratio
token_set_ratio(s1, s2) ==
    LET p1 == full_process(s1)
        p2 == full_process(s2)
        tokens1 == SeqToSet(split(p1))
        tokens2 == SeqToSet(split(p2))
        sorted_sect == strip(join(" ", sorted(tokens1 \cap tokens2)))
        combined_1to2 ==
            strip(join(" ", sorted(tokens1 \cap tokens2)) \o " " \o join(" ", sorted(tokens1 \ tokens2)))
        combined_2to1 ==
            strip(join(" ", sorted(tokens1 \cap tokens2)) \o " " \o join(" ", sorted(tokens2 \ tokens1)))
    IN  IF Len(p1) = 0 \/ Len(p2) = 0 THEN 0
        ELSE Max2(fuzz_ratio(sorted_sect, combined_1to2),
                  Max2(fuzz_ratio(sorted_sect, combined_2to1),
                       fuzz_ratio(combined_1to2, combined_2to1)))

(***************************************************************************)
(* Python float (IEEE-754 binary64, round to nearest, ties to even).       *)
(* A non-negative float is the natural number value * 2^64, written as its *)
(* base-256 digits, least significant first, without leading zeros (0.0 is *)
(* <<>>).  Every float the engine forms is below 128 and a multiple of     *)
(* 2^-56, so the representation is exact.                                  *)
(***************************************************************************)
FracBytes == 8
Mantissa == 53
Pow2 == <<1, 2, 4, 8, 16, 32, 64, 128>>

Digit(a, i) == IF i <= Len(a) THEN a[i] ELSE 0

\* drop the leading (most significant) zero digits
Normalize(a) ==
    LET nz == {i \in 1..Len(a) : a[i] # 0}
    IN  IF nz = {} THEN <<>>
        ELSE SubSeq(a, 1, CHOOSE n \in nz : \A i \in nz : i <= n)

RECURSIVE DigitsOf(_)
DigitsOf(n) == IF n = 0 THEN <<>> ELSE <<n % 256>> \o DigitsOf(n \div 256)

RECURSIVE BitLenOf(_)
BitLenOf(n) == IF n = 0 THEN 0 ELSE 1 + BitLenOf(n \div 2)

Zeros(k) == [i \in 1..k |-> 0]
ShiftBytes(a, k) == IF Len(a) = 0 THEN a ELSE Zeros(k) \o a

RECURSIVE AddFrom(_, _, _, _)
AddFrom(a, b, i, carry) ==
    IF i > Len(a) /\ i > Len(b) THEN (IF carry = 0 THEN <<>> ELSE <<carry>>)
    ELSE <<(Digit(a, i) + Digit(b, i) + carry) % 256>>
         \o AddFrom(a, b, i + 1, (Digit(a, i) + Digit(b, i) + carry) \div 256)
BAdd(a, b) == AddFrom(a, b, 1, 0)

RECURSIVE MulFrom(_, _, _, _)
MulFrom(a, n, i, carry) ==
    IF i > Len(a) THEN DigitsOf(carry)
    ELSE <<(a[i] * n + carry) % 256>> \o MulFrom(a, n, i + 1, (a[i] * n + carry) \div 256)
\* a * n for a small natural n
BMulSmall(a, n) == Normalize(MulFrom(a, n, 1, 0))

RECURSIVE DivFrom(_, _, _, _, _)
\* long division of the digits k..1 of a by d: rem is carried in, q collects the
\* quotient digits
DivFrom(a, k, d, rem, q) ==
    IF k = 0 THEN [q |-> q, r |-> rem]
    ELSE DivFrom(a, k - 1, d, (256 * rem + a[k]) % d, <<(256 * rem + a[k]) \div d>> \o q)

\* a < b
FLess(a, b) ==
    IF Len(a) # Len(b) THEN Len(a) < Len(b)
    ELSE \E i \in 1..Len(a) : a[i] < b[i] /\ \A j \in (i + 1)..Len(a) : a[j] = b[j]
\* a >= b
FGeq(a, b) == ~FLess(a, b)

\* binary digit i of a (i = 1 is the lowest)
BitAt(a, i) == (Digit(a, ((i - 1) \div 8) + 1) \div Pow2[((i - 1) % 8) + 1]) % 2
BitLen(a) == IF Len(a) = 0 THEN 0 ELSE 8 * (Len(a) - 1) + BitLenOf(a[Len(a)])
\* 2^(i-1) as a number
OneAt(i) == Zeros((i - 1) \div 8) \o <<Pow2[((i - 1) % 8) + 1]>>
\* a with its binary digits 1..drop cleared
ClearLow(a, drop) ==
    [k \in 1..Len(a) |->
        IF 8 * k <= drop THEN 0
        ELSE IF 8 * (k - 1) >= drop THEN a[k]
        ELSE a[k] - (a[k] % Pow2[drop - 8 * (k - 1) + 1])]

\* the nearest float to the exact value a (+ something below one unit if sticky):
\* 53 significant binary digits, ties to the even one
RoundSig(a, sticky) ==
    IF BitLen(a) <= Mantissa THEN a
    ELSE LET drop == BitLen(a) - Mantissa
             below == sticky \/ \E i \in 1..(drop - 1) : BitAt(a, i) = 1
             up == BitAt(a, drop) = 1 /\ (below \/ BitAt(a, drop + 1) = 1)
         IN  IF up THEN BAdd(ClearLow(a, drop), OneAt(drop + 1)) ELSE ClearLow(a, drop)

\* the float a decimal literal num/den denotes (0.40 is 40/100)
FloatLiteral(num, den) ==
    LET n == ShiftBytes(DigitsOf(num), FracBytes)
        d == DivFrom(n, Len(n), den, 0, <<>>)
    IN  RoundSig(Normalize(d.q), d.r # 0)

\* float(n) of a small integer
FloatOfInt(n) == ShiftBytes(DigitsOf(n), FracBytes)
\* x * w for an integer-valued x and a float w
FMulInt(n, w) == RoundSig(BMulSmall(w, n), FALSE)
\* x + y
FAdd(x, y) == RoundSig(BAdd(x, y), FALSE)

\* round(x, 2), in hundredths (6100 is 61.0): correctly rounded, ties to even
round2(x) ==
    LET y == BMulSmall(x, 100)
        whole == Digit(y, FracBytes + 1) + 256 * Digit(y, FracBytes + 2)
        below == \E i \in 1..(8 * FracBytes - 1) : BitAt(y, i) = 1
        up == BitAt(y, 8 * FracBytes) = 1 /\ (below \/ whole % 2 = 1)
    IN  IF up THEN whole + 1 ELSE whole

(***************************************************************************)
(* CertificateTextPreprocessor and RuleBasedEntityExtractor                *)
(* Line indices are Python's: line number idx is lines[idx + 1].           *)
(***************************************************************************)
RECURSIVE Squeeze(_, _, _)
\* re.sub(r'\s+', ' ', line) on the characters lo..hi: a whitespace run becomes one space
Squeeze(s, lo, hi) ==
    IF lo > hi THEN ""
    ELSE IF lo = hi
         THEN IF ~isspace_char(At(s, lo)) THEN At(s, lo)
              ELSE IF lo > 1 /\ isspace_char(At(s, lo - 1)) THEN "" ELSE " "
    ELSE Squeeze(s, lo, (lo + hi) \div 2) \o Squeeze(s, (lo + hi) \div 2 + 1, hi)

preprocess(text) ==
    IF text = "" THEN ""
    ELSE LET stripped == [k \in DOMAIN split_lines(text) |-> strip(split_lines(text)[k])]
             kept == SelectSeq(stripped, LAMBDA line : line # "")
         IN  join("\n", [k \in DOMAIN kept |-> Squeeze(kept[k], 1, Len(kept[k]))])

get_lines(text) ==
    LET stripped == [k \in DOMAIN split_lines(text) |-> strip(split_lines(text)[k])]
    IN  SelectSeq(stripped, LAMBDA line : line # "")

PERSON_NAME_TRIGGERS ==
    <<"certify that", "this is to certify", "presented to", "awarded to",
      "certificate awarded", "issued to", "in recognition of", "to certify that">>
ORGANIZATION_TRIGGERS ==
    <<"issued by", "offered by", "authorized by", "by", "conducted by", "presented by", "from">>
DATE_TRIGGERS ==
    <<"date", "issued on", "issue date", "on", "dated", "completion date", "awarded on">>
CERTIFICATE_KEYWORDS ==
    <<"certificate", "completion", "achievement", "recognition",
      "course", "program", "specialization", "credential">>

\* any(word in s for word in words)
any_in(words, s) == \E k \in DOMAIN words : Contains(s, words[k])

\* "no index": the None of an Optional[int]
NoIndex == -1

\* the line number idx of lines
Line(lines, idx) == lines[idx + 1]
Indices(lines) == 0..(Len(lines) - 1)

\* a variant of extract_certificate_title that takes the first keyword line of admissible
\* length in document order, capitals or not
extract_first_keyword_line(lines) ==
    LET mixed == {idx \in Indices(lines) :
                    /\ any_in(CERTIFICATE_KEYWORDS, lower(Line(lines, idx)))
                    /\ 6 < Len(Line(lines, idx))
                    /\ Len(Line(lines, idx)) < 200}
    IN  IF mixed # {}
        THEN [value |-> Line(lines, Min(mixed)), idx |-> Min(mixed), method |-> "rule_based"]
        ELSE [value |-> None, idx |-> NoIndex, method |-> "not_found"]

extract_certificate_title(lines) ==
    LET caps == {idx \in Indices(lines) :
                    /\ isupper(Line(lines, idx))
                    /\ Len(Line(lines, idx)) > 6
                    /\ \E k \in DOMAIN CERTIFICATE_KEYWORDS :
                          Contains(Line(lines, idx), upper(CERTIFICATE_KEYWORDS[k]))}
        mixed == {idx \in Indices(lines) :
                    /\ any_in(CERTIFICATE_KEYWORDS, lower(Line(lines, idx)))
                    /\ 6 < Len(Line(lines, idx))
                    /\ Len(Line(lines, idx)) < 200}
    IN  IF caps # {} THEN [value |-> Line(lines, Min(caps)), idx |-> Min(caps), method |-> "rule_based"]
        ELSE IF mixed # {}
        THEN [value |-> Line(lines, Min(mixed)), idx |-> Min(mixed), method |-> "rule_based"]
        ELSE [value |-> None, idx |-> NoIndex, method |-> "not_found"]

\* a variant of _is_valid_name that accepts every non-empty string
_is_nonempty_name(name) == name # ""

\* a variant of _is_valid_name without the test for certificate keywords
_is_valid_name_with_keywords(name) ==
    /\ name # ""
    /\ ~isupper(name)
    /\ \A i \in 1..Len(name) : At(name, i) \in Letters \cup SpaceSet \cup {".", "'", "-"}
    /\ Len(split(name)) \in 1..4
    /\ Len(name) \in 3..100

_is_valid_name(name) ==
    /\ name # ""
    /\ ~isupper(name)
    /\ ~any_in(CERTIFICATE_KEYWORDS, lower(name))
    /\ \A i \in 1..Len(name) : ~isdigit_char(At(name, i))
    /\ \A i \in 1..Len(name) : At(name, i) \in Letters \cup SpaceSet \cup {".", "'", "-"}
    /\ 1 <= Len(split(name))
    /\ Len(split(name)) <= 4
    /\ 3 <= Len(name)
    /\ Len(name) <= 100

\* alpha_chars / len(org) > 0.5 holds exactly when 2 * alpha_chars > len(org): the quotient
\* of two integers up to 200 is 0.5 or at least 1/400 away from it
_is_valid_organization(org) ==
    /\ ~(org = "" \/ Len(org) < 3 \/ Len(org) > 200)
    /\ 2 * Cardinality({i \in 1..Len(org) : isalpha_char(At(org, i))}) > Len(org)

\* a variant of blocked_indices that blocks no line at all
no_blocked_indices(used_indices, certificate_title_idx) == {}

\* used_indices.union({certificate_title_idx} if certificate_title_idx is not None else set())
blocked_indices(used_indices, certificate_title_idx) ==
    used_indices \cup (IF certificate_title_idx # NoIndex THEN {certificate_title_idx} ELSE {})

\* j = i + 1; while j < len(lines) and j in blocked: j += 1
next_unblocked(lines, blocked, i) ==
    Min({j \in (i + 1)..(Len(lines) - 1) : j \notin blocked} \cup {Len(lines)})

\* the result of an extractor: the value, its method tag, and the line number it added
\* to used_indices (NoIndex when it added none)
Extracted(value, method, idx) == [value |-> value, method |-> method, idx |-> idx]

\* a variant of extract_person_name that ignores the trigger lines and takes the first
\* line that is not blocked and passes the validation
extract_first_valid_line(lines, certificate_title_idx, used_indices) ==
    LET blocked == blocked_indices(used_indices, certificate_title_idx)
        free == {idx \in Indices(lines) : idx \notin blocked /\ _is_valid_name(Line(lines, idx))}
    IN  IF free # {} THEN Extracted(Line(lines, Min(free)), "rule_based", Min(free))
        ELSE Extracted(None, "not_found", NoIndex)

extract_person_name(lines, certificate_title_idx, used_indices) ==
    LET blocked == blocked_indices(used_indices, certificate_title_idx)
        after == [i \in Indices(lines) |-> next_unblocked(lines, blocked, i)]
        hits == {i \in Indices(lines) :
                    /\ any_in(PERSON_NAME_TRIGGERS, lower(Line(lines, i)))
                    /\ after[i] < Len(lines)
                    /\ _is_valid_name(strip(Line(lines, after[i])))}
        free == {idx \in Indices(lines) : idx \notin blocked /\ _is_valid_name(Line(lines, idx))}
    IN  IF hits # {}
        THEN Extracted(strip(Line(lines, after[Min(hits)])), "rule_based", after[Min(hits)])
        ELSE IF free # {} THEN Extracted(Line(lines, Min(free)), "rule_based", Min(free))
        ELSE Extracted(None, "not_found", NoIndex)

\* rf"{trigger}\s*[:\-]?\s*(.+)"
organization_pattern(trigger) ==
    <<Lit(trigger), Cls(SpaceSet, 0, -1), Cls({":", "-"}, 0, 1), Cls(SpaceSet, 0, -1),
      Grp, Cls(AnyChar, 1, -1)>>

\* the text captured after a trigger on the line, stripped; None without a match
inline_candidate(line, trigger) ==
    LET g == search_group(organization_pattern(trigger), line)
    IN  IF g = None THEN None ELSE strip(g)

\* what the body of the loop of extract_organization returns for the trigger line i
\* (value None: the loop goes on)
organization_at(lines, blocked, i) ==
    LET line == Line(lines, i)
        inline == {k \in DOMAIN ORGANIZATION_TRIGGERS :
                      /\ Contains(lower(line), ORGANIZATION_TRIGGERS[k])
                      /\ inline_candidate(line, ORGANIZATION_TRIGGERS[k]) # None
                      /\ _is_valid_organization(inline_candidate(line, ORGANIZATION_TRIGGERS[k]))}
        j == next_unblocked(lines, blocked, i)
    IN  IF inline # {}
        THEN Extracted(inline_candidate(line, ORGANIZATION_TRIGGERS[Min(inline)]), "rule_based", i)
        ELSE IF j < Len(lines) /\ _is_valid_organization(strip(Line(lines, j)))
        THEN Extracted(strip(Line(lines, j)), "rule_based", j)
        ELSE Extracted(None, "not_found", NoIndex)

extract_organization(lines, used_indices, certificate_title_idx) ==
    LET blocked == blocked_indices(used_indices, certificate_title_idx)
        hits == {i \in Indices(lines) :
                    /\ i \notin blocked
                    /\ any_in(ORGANIZATION_TRIGGERS, lower(Line(lines, i)))
                    /\ organization_at(lines, blocked, i).value # None}
    IN  IF hits # {} THEN organization_at(lines, blocked, Min(hits))
        ELSE Extracted(None, "not_found", NoIndex)

\* the pieces of the date patterns
D12 == Cls(DigitSet, 1, 2)
D4 == Cls(DigitSet, 4, 4)
DateSep == Cls({"-", "/"}, 1, 1)
Spaces1 == Cls(SpaceSet, 1, -1)
Comma01 == Cls({","}, 0, 1)
MonthName ==
    Alt(<< <<Lit("january")>>, <<Lit("february")>>, <<Lit("march")>>, <<Lit("april")>>,
           <<Lit("may")>>, <<Lit("june")>>, <<Lit("july")>>, <<Lit("august")>>,
           <<Lit("september")>>, <<Lit("october")>>, <<Lit("november")>>, <<Lit("december")>> >>)
\* \d{1,2}[-/]\d{1,2}[-/]\d{2,4} and the three other shapes of date_patterns
NumericDate == <<D12, DateSep, D12, DateSep, Cls(DigitSet, 2, 4)>>
IsoDate == <<D4, DateSep, D12, DateSep, D12>>
MonthFirstDate == <<MonthName, Spaces1, D12, Comma01, Spaces1, D4>>
DayFirstDate == <<D12, Spaces1, MonthName, Spaces1, D4>>
date_patterns ==
    << <<Grp>> \o NumericDate, <<Grp>> \o IsoDate, <<Grp>> \o MonthFirstDate,
       <<Grp>> \o DayFirstDate >>

\* In the trigger search only the first piece of the pattern is an f-string: in the three
\* pieces after it "{{" and "}}" are not reduced, and \d{{4}} is a digit, four "{", one "}".
Digit1 == Cls(DigitSet, 1, 1)
Braces(min, max) == <<Cls({"{"}, min, max), Lit("}")>>
IsoDateRaw ==
    <<Digit1>> \o Braces(4, 4) \o <<DateSep, Digit1>> \o Braces(1, 2)
        \o <<DateSep, Digit1>> \o Braces(1, 2)
MonthFirstDateRaw ==
    <<MonthName, Spaces1, Digit1>> \o Braces(1, 2) \o <<Comma01, Spaces1, Digit1>> \o Braces(4, 4)
DayFirstDateRaw ==
    <<Digit1>> \o Braces(1, 2) \o <<Spaces1, MonthName, Spaces1, Digit1>> \o Braces(4, 4)
trigger_date_pattern(trigger) ==
    <<Lit(trigger), Cls(SpaceSet, 0, -1), Cls({":", "-"}, 0, 1), Cls(SpaceSet, 0, -1), Grp,
      Alt(<<NumericDate, IsoDateRaw, MonthFirstDateRaw, DayFirstDateRaw>>)>>

extract_issue_date(text) ==
    LET triggered == {k \in DOMAIN DATE_TRIGGERS :
                         search_group(trigger_date_pattern(DATE_TRIGGERS[k]), text) # None}
        anywhere == {k \in DOMAIN date_patterns : search_group(date_patterns[k], text) # None}
    IN  IF triggered # {}
        THEN [value |-> strip(search_group(trigger_date_pattern(DATE_TRIGGERS[Min(triggered)]),
                                           text)),
              method |-> "rule_based"]
        ELSE IF anywhere # {}
        THEN [value |-> strip(search_group(date_patterns[Min(anywhere)], text)),
              method |-> "rule_based"]
        ELSE [value |-> None, method |-> "not_found"]

reg_patterns ==
    << <<Alt(<< <<Lit("registration")>>, <<Lit("certificate")>>, <<Lit("ref")>>,
                <<Lit("serial")>> >>),
         Cls(SpaceSet, 0, -1),
         Opt(<<Alt(<< <<Lit("number")>>, <<Lit("no")>>, <<Lit("#")>> >>)>>),
         Cls({":"}, 0, 1), Cls(SpaceSet, 0, -1), Grp,
         Cls(Letters \cup DigitSet \cup {"-"}, 1, -1)>>,
       <<WordB, Grp, Cls(Letters, 2, -1), Lit("-"), D4, Lit("-"), Cls(DigitSet, 6, 6), WordB>>,
       <<WordB, Grp, Cls(Letters, 2, 2), D4, Cls(WordSet, 1, -1), WordB>> >>

_extract_registration_number(text) ==
    LET found == {k \in DOMAIN reg_patterns : search_group(reg_patterns[k], text) # None}
    IN  IF found # {} THEN strip(search_group(reg_patterns[Min(found)], text)) ELSE None

EntityFields ==
    {"person_name", "organization", "certificate_title", "issue_date", "registration_number"}
_create_empty_entities == [f \in EntityFields |-> None]

(***************************************************************************)
(* IntelligentVerificationEngine                                           *)
(***************************************************************************)
WEIGHTS ==
    [person_name |-> FloatLiteral(40, 100),
     organization |-> FloatLiteral(30, 100),
     certificate_title |-> FloatLiteral(20, 100),
     issue_date |-> FloatLiteral(10, 100)]
\* the keys of WEIGHTS
WeightedFields == {"person_name", "organization", "certificate_title", "issue_date"}
VERIFIED_THRESHOLD == FloatLiteral(850, 10)
PARTIALLY_VERIFIED_THRESHOLD == FloatLiteral(600, 10)

\* self.valid_certificates as __init__ leaves it
InitialCertificates ==
    << [person_name |-> "John Smith", organization |-> "Stanford University",
        certificate_title |-> "Machine Learning Specialization",
        issue_date |-> "2023-06-15", registration_number |-> "ML-2023-001234"],
       [person_name |-> "Jane Doe", organization |-> "MIT",
        certificate_title |-> "Data Science Certificate",
        issue_date |-> "2023-08-20", registration_number |-> "DS-2023-005678"],
       [person_name |-> "Alice Johnson", organization |-> "Harvard University",
        certificate_title |-> "Python Programming Certificate",
        issue_date |-> "2023-09-10", registration_number |-> "PY-2023-009012"],
       [person_name |-> "Bob Williams", organization |-> "Google",
        certificate_title |-> "Cloud Architecture Certificate",
        issue_date |-> "2023-07-25", registration_number |-> "GCP-2023-003456"],
       [person_name |-> "Carol Martinez", organization |-> "IBM",
        certificate_title |-> "AI Engineering Certificate",
        issue_date |-> "2023-10-05", registration_number |-> "AI-2023-007890"] >>

\* scores are the integer-valued floats 0.0 .. 100.0, written as integers
_fuzzy_match(extracted, valid) ==
    IF ~Truthy(extracted) \/ ~Truthy(valid) THEN 0
    ELSE IF strip(lower(extracted)) = strip(lower(valid)) THEN 100
    ELSE token_set_ratio(strip(lower(extracted)), strip(lower(valid)))

\* a variant of _extract_year that returns the last year of the string, not the first
_extract_last_year(date_str) ==
    LET hits == {i \in 1..(Len(date_str) - 3) :
                    /\ SubSeq(date_str, i, i + 1) = "20"
                    /\ isdigit_char(At(date_str, i + 2))
                    /\ isdigit_char(At(date_str, i + 3))}
    IN  IF hits = {} THEN None ELSE SubSeq(date_str, Max(hits), Max(hits) + 3)

\* re.search(r'(20\d{2})', date_str)
_extract_year(date_str) ==
    LET hits == {i \in 1..(Len(date_str) - 3) :
                    /\ SubSeq(date_str, i, i + 1) = "20"
                    /\ isdigit_char(At(date_str, i + 2))
                    /\ isdigit_char(At(date_str, i + 3))}
    IN  IF hits = {} THEN None
        ELSE SubSeq(date_str, CHOOSE i \in hits : \A j \in hits : i <= j,
                    (CHOOSE i \in hits : \A j \in hits : i <= j) + 3)

_date_match_score(extracted_date, valid_date) ==
    IF ~Truthy(extracted_date) \/ ~Truthy(valid_date) THEN 0
    ELSE IF strip(extracted_date) = strip(valid_date) THEN 100
    ELSE IF /\ _extract_year(strip(extracted_date)) # None
            /\ _extract_year(strip(extracted_date)) = _extract_year(strip(valid_date))
         THEN 80
    ELSE fuzz_ratio(strip(extracted_date), strip(valid_date))

_calculate_field_scores(extracted, valid_cert) ==
    [person_name |->
        _fuzzy_match(DictGet(extracted, "person_name", ""), DictGet(valid_cert, "person_name", "")),
     organization |->
        _fuzzy_match(DictGet(extracted, "organization", ""), DictGet(valid_cert, "organization", "")),
     certificate_title |->
        _fuzzy_match(DictGet(extracted, "certificate_title", ""),
                     DictGet(valid_cert, "certificate_title", "")),
     issue_date |->
        _date_match_score(DictGet(extracted, "issue_date", ""), DictGet(valid_cert, "issue_date", ""))]

\* total_score += score * weight over WEIGHTS.items(), from 0.0: the value of
\* total_score after each of the four iterations, and the last one returned
_calculate_overall_score(field_scores) ==
    LET term(field) == FMulInt(DictGet(field_scores, field, 0), WEIGHTS[field])
        total_1 == FAdd(<<>>, term("person_name"))
        total_2 == FAdd(total_1, term("organization"))
        total_3 == FAdd(total_2, term("certificate_title"))
        total_4 == FAdd(total_3, term("issue_date"))
        total_score == <<total_1, total_2, total_3, total_4>>
    IN  total_score[4]

\* a variant of _identify_mismatches with an entry for every field that scores below 100
_identify_below_full(extracted, valid_cert, field_scores) ==
    LET score(field) == DictGet(field_scores, field, 0)
        fields == {field \in WeightedFields : score(field) < 100}
    IN  IF fields = {} THEN NoneDict
        ELSE [field \in fields |->
                [extracted |-> DictGet(extracted, field, None),
                 expected |-> DictGet(valid_cert, field, None),
                 similarity_score |-> score(field)]]

_identify_mismatches(extracted, valid_cert, field_scores) ==
    LET score(field) == DictGet(field_scores, field, 0)
        fields == {field \in WeightedFields :
                      \/ score(field) < 100 /\ score(field) > 0
                      \/ score(field) = 0 /\ Truthy(DictGet(extracted, field, None))}
    IN  IF fields = {} THEN NoneDict
        ELSE [field \in fields |->
                [extracted |-> DictGet(extracted, field, None),
                 expected |-> DictGet(valid_cert, field, None),
                 similarity_score |-> score(field)]]

\* confidence_score is kept in hundredths (round(x, 2)); the timestamp is left out
_create_result(status, confidence_score, field_scores, matched_record, mismatches, reason) ==
    [verification_status |-> status,
     confidence_score |-> round2(confidence_score),
     field_scores |-> IF field_scores = NoneDict THEN EmptyDict ELSE field_scores,
     matched_record |-> matched_record,
     mismatches |-> mismatches,
     reason |-> reason]

\* a variant of no_entities without the any(...) test: only None and {} count as empty
no_entities_unless_keys(entities) == entities = NoneDict \/ DOMAIN entities = {}

\* not extracted_entities or not any(extracted_entities.values())
no_entities(entities) ==
    \/ entities = NoneDict
    \/ \A k \in DOMAIN entities : ~Truthy(entities[k])

\* a variant of status_of whose comparisons are strict (> in place of >=)
status_of_strict(score) ==
    IF FLess(VERIFIED_THRESHOLD, score) THEN "VERIFIED"
    ELSE IF FLess(PARTIALLY_VERIFIED_THRESHOLD, score) THEN "PARTIALLY_VERIFIED"
    ELSE "NOT_VERIFIED"

\* the status the thresholds give a score
status_of(score) ==
    IF FGeq(score, VERIFIED_THRESHOLD) THEN "VERIFIED"
    ELSE IF FGeq(score, PARTIALLY_VERIFIED_THRESHOLD) THEN "PARTIALLY_VERIFIED"
    ELSE "NOT_VERIFIED"

\* the locals of _find_best_match before the loop
NoBest == [score |-> <<>>, match |-> NoneDict, scores |-> EmptyDict, mismatches |-> EmptyDict]

\* the locals of the loop body of _find_best_match once field_scores is computed
loop_locals(entities, valid_cert, field_scores) ==
    [field_scores |-> field_scores,
     overall_score |-> _calculate_overall_score(field_scores),
     mismatches |-> _identify_mismatches(entities, valid_cert, field_scores)]

\* the locals the loop body of _find_best_match assigns for valid_cert, in its order
score_record(entities, valid_cert) ==
    loop_locals(entities, valid_cert, _calculate_field_scores(entities, valid_cert))

\* a variant of keep_better that replaces the record and its score but keeps the field
\* scores and mismatches it had
keep_better_record_only(best, valid_cert, scored) ==
    IF FLess(best.score, scored.overall_score)
    THEN [best EXCEPT !.score = scored.overall_score, !.match = valid_cert]
    ELSE best

\* if overall_score > best_score: the scored record replaces the best one
keep_better(best, valid_cert, scored) ==
    IF FLess(best.score, scored.overall_score)
    THEN [score |-> scored.overall_score, match |-> valid_cert,
          scores |-> scored.field_scores, mismatches |-> scored.mismatches]
    ELSE best

\* one pass of the loop body of _find_best_match over valid_cert
scan_step(best, entities, valid_cert) ==
    keep_better(best, valid_cert, score_record(entities, valid_cert))

\* verify after _find_best_match has returned best
verdict_of(best) ==
    IF best.score = <<>>
    THEN _create_result("NOT_VERIFIED", <<>>, NoneDict, NoneDict, best.scores,
                        "No matching certificate found")
    ELSE _create_result(status_of(best.score), best.score, best.scores, best.match,
                        best.mismatches, None)

\* a variant of verify_except that lets the exception out of verify
verify_reraise == [pc |-> "raised", result |-> NoneDict]

\* the except clause of verify: the exception is logged and a result returned
verify_except ==
    [pc |-> "returned",
     result |-> _create_result("NOT_VERIFIED", <<>>, NoneDict, NoneDict, NoneDict,
                               "Verification error")]

(***************************************************************************)
(* Inputs of the matching engine                                           *)
(***************************************************************************)
\* the longest reference collection a caller installs
MaxRefs == 2

\* the dict ExtractedEntity.to_dict() builds
Entities(name, org, title, date, reg) ==
    [person_name |-> name, organization |-> org, certificate_title |-> title,
     issue_date |-> date, registration_number |-> reg]

\* a second record of the same organization as InitialCertificates[2]
JanetDow ==
    [person_name |-> "Janet Dow", organization |-> "MIT",
     certificate_title |-> "Data Science Certificate",
     issue_date |-> "2023-08-21", registration_number |-> "DS-2023-005679"]

RefPool == {InitialCertificates[1], InitialCertificates[2], JanetDow}

\* the collections a caller installs: up to MaxRefs different records, in any order
ReferenceCollections ==
    {c \in UNION {[1..n -> RefPool] : n \in 0..MaxRefs} :
        \A i, j \in DOMAIN c : i # j => c[i] # c[j]}

EntityPool ==
    { NoneDict,
      EmptyDict,
      Entities(None, None, None, None, None),
      Entities("", "", "", "", ""),
      Entities(None, None, None, None, "ML-2023-001234"),
      Entities("Quux", None, None, None, None),
      Entities("John Smith", "Stanford University", "Machine Learning Specialization",
               "2023-06-15", "ML-2023-001234"),
      Entities("John Smith", "QQQ", "", "15/06/2023", None),
      Entities("John Smith", "Stanford University", "CERTIFICATE OF ACHIEVEMENT",
               "2023-06-15", None),
      Entities("John Smith", "Stanford Univ", "", None, None),
      Entities("john smith", None, "Machine Learning Specialization", None, None),
      Entities("Jane Doe", "M.I.T.", "Data Science Certificate", "2023-08-20", None),
      Entities("Jane Doe", "amid", None, "9920", None),
      Entities(None, "MIT", None, None, None),
      Entities(None, None, "Data Science Certificate", "20 August 2023", None) }

(***************************************************************************)
(* State                                                                   *)
(***************************************************************************)
VARIABLES
    text,                 \* the argument of the extract_entities call in progress
    epc,                  \* where extract_entities is: "idle", "preprocess", "title",
                          \* "person", "organization", "date", "check", "fallback",
                          \* "build", "returned", "raised"
    clean_text,           \* text once it is rebound to the preprocessed text
    lines,
    used_indices,
    certificate_title,    \* value, cert_idx and cert_method
    person_name,          \* value, person_method, and the line number the extractor reserved
    organization,         \* value, org_method, and the line number the extractor reserved
    issue_date,           \* value and date_method
    invoked,              \* what the call has run: "rule_based", "check", "spacy"
    entities,             \* what extract_entities returned
    valid_certificates,   \* self.valid_certificates
    extracted_entities,   \* the argument of the verify call in progress
    vpc,                  \* where verify is: "idle", "scan", "returned", "raised"
    cert_i,               \* how many records the loop of _find_best_match has scored
    best,                 \* best_score, best_match, best_scores, best_mismatches
    result,               \* what verify returned
    field_scores,         \* the argument of a _calculate_overall_score call
    overall_score,        \* what that call returned
    nlp,                  \* self.nlp of the NERService that serves concurrent calls
    frames,               \* the locals of each of the concurrent extract_entities calls
    similarity,           \* a _fuzzy_match or _date_match_score call: fn, args, score
    now,                  \* datetime.utcnow(), in ticks
    requests,             \* rate_limiter.requests
    granted,              \* per identifier, the times of all is_allowed calls that returned True
    outcome,              \* the last is_allowed call: identifier, time, allowed
    file,                 \* the UploadFile of the last upload request: content and position
    db_certificates,      \* the rows of Certificate
    db_results,           \* the rows of VerificationResult
    upload_directory,     \* the files save_file has written
    stats_cache,          \* the cache entry "stats:summary"
    response              \* what the last v2 handler answered

extract_vars ==
    <<text, epc, clean_text, lines, used_indices, certificate_title, person_name,
      organization, issue_date, invoked, entities>>
verify_vars == <<valid_certificates, extracted_entities, vpc, cert_i, best, result>>
score_vars == <<field_scores, overall_score>>
calls_vars == <<nlp, frames>>
similarity_vars == <<similarity>>
rate_vars == <<now, requests, granted, outcome>>
api_vars == <<file, db_certificates, db_results, upload_directory, stats_cache, response>>
vars ==
    <<extract_vars, verify_vars, score_vars, calls_vars, similarity_vars, rate_vars, api_vars>>

\* the locals of extract_entities before they are bound
NotExtracted == Extracted(None, "not_found", NoIndex)
NoDate == [value |-> None, method |-> "not_found"]

\* the extract_entities calls that may be in progress at the same time
Calls == {1, 2}
\* a call that has not started
IdleFrame ==
    [text |-> None, pc |-> "idle", clean_text |-> None, lines |-> <<>>, used_indices |-> {},
     certificate_title |-> NotExtracted, person_name |-> NotExtracted,
     organization |-> NotExtracted, issue_date |-> NoDate, entities |-> NoneDict]

\* the client addresses that call upload_certificate
Identifiers == {"10.0.0.1", "10.0.0.2"}

\* NERService, IntelligentVerificationEngine and rate_limiter are constructed; nothing is
\* in progress
Init ==
    /\ text = None
    /\ epc = "idle"
    /\ clean_text = None
    /\ lines = <<>>
    /\ used_indices = {}
    /\ certificate_title = NotExtracted
    /\ person_name = NotExtracted
    /\ organization = NotExtracted
    /\ issue_date = NoDate
    /\ invoked = {}
    /\ entities = NoneDict
    /\ valid_certificates = InitialCertificates
    /\ extracted_entities = NoneDict
    /\ vpc = "idle"
    /\ cert_i = 0
    /\ best = NoBest
    /\ result = NoneDict
    /\ field_scores = NoneDict
    /\ overall_score = <<>>
    /\ nlp = None
    /\ frames = [c \in Calls |-> IdleFrame]
    /\ similarity = NoneDict
    /\ now = 0
    /\ requests = EmptyDict
    /\ granted = [identifier \in Identifiers |-> <<>>]
    /\ outcome = NoneDict
    /\ file = NoneDict
    /\ db_certificates = <<>>
    /\ db_results = <<>>
    /\ upload_directory = <<>>
    /\ stats_cache = NoneDict
    /\ response = NoneDict

(***************************************************************************)
(* NERService.extract_entities, one stage at a time                        *)
(***************************************************************************)
InputTexts ==
    { "",
      "  \n\t",
      "CERTIFICATE OF ACHIEVEMENT\nThis is to certify that\nJohn Smith\nIssued by Coursera\nDate: 15/06/2023",
      "Certificate of Completion by Coursera",
      "  Certificate   of   Completion  \n\n  presented to \n Jane Doe \n from MIT\n on 2023-06-15",
      "John Smith\nIssued by: Stanford University\nIssued on: 2023-06-15",
      "hello world",
      "JOHN SMITH\nawarded to\nJOHN SMITH\nby\nAcme Corp 12",
      "Course in Recognition of Merit\nPresented to\nPresented by Udemy\nCarol Danvers\n20 August 2023",
      "Serial No: XY1234Z\nDate 1/2/23",
      "Reference ABC-2023-123456 dated 5 June 2023",
      "Data Science\ncertify that\nDan Brown\nauthorized by\n123 456\nOxford",
      "CERTIFICATE OF MERIT\nto Jane Doe 2023",
      "awarded to\nCertificate Of Merit\nCERTIFICATE OF MERIT",
      "COURSE\nProgram one",
      "AB-2023-001234 15/06/2023",
      "awarded to\nCERTIFICATE OF MERIT\nJane Doe",
      "awarded to\nJane Doe\nfrom 2023\n12345\nissued by\nCERTIFICATE OF MERIT\nAcme Corp",
      "Issued by AB12",
      "Course aaaaaaaaaaaaaaaaaaaaaaaaaaaaaaaaaaaaaaaaaaaaaaaaaaaaaaaaaaaaaaaaaaaaaaaaaaaaaaaaaaaaaaaaaaaaaaaaaaaaaaaaaaaaaaaaaaaaaaaaaaaaaaaaaaaaaaaaaaaaaaaaaaaaaaaaaaaaaaaaaaaaaaaaaaaaaaaaaaaaaaaaaaaaaaaaa\nProgram one" }

\* ent.text of the entities a recognizer may report: a line of the text, two
\* consecutive words of a line, or the last word of a line with the first word of the
\* next line (the text the recognizer reads has its line breaks)
WordPairs(line) ==
    {split(line)[i] \o " " \o split(line)[i + 1] : i \in 1..(Len(split(line)) - 1)}
LineBreakPairs(ls) ==
    {split(ls[k])[Len(split(ls[k]))] \o "\n" \o split(ls[k + 1])[1] : k \in 1..(Len(ls) - 1)}
Spans(ls) ==
    SeqToSet(ls) \cup UNION {WordPairs(ls[k]) : k \in DOMAIN ls} \cup LineBreakPairs(ls)

\* What _extract_with_spacy can return: the recognizer is not part of the program, so any
\* of person_name, organization and issue_date may be present, each with a span of the
\* text as its value; an issue_date has a digit and more than 4 characters.
SpacyFields == {"person_name", "organization", "issue_date"}
SpacyResults(ls) ==
    UNION {{r \in [D -> Spans(ls)] :
               "issue_date" \in D =>
                   /\ \E i \in 1..Len(r["issue_date"]) : isdigit_char(At(r["issue_date"], i))
                   /\ Len(r["issue_date"]) > 4} : D \in SUBSET SpacyFields}

\* a variant of extract_except that lets the exception out of extract_entities
extract_reraise == [pc |-> "raised", entities |-> NoneDict]

\* the except clause of extract_entities
extract_except == [pc |-> "returned", entities |-> _create_empty_entities]

\* the positions of extract_entities inside its try block
TrySteps == {"preprocess", "title", "person", "organization", "date", "check", "fallback", "build"}

\* a variant of stage_after in which the fallback runs before the consistency check
stage_after_fallback_first == [date |-> "fallback", fallback |-> "check", check |-> "build"]

\* the order of the stages that follow the four rule-based extractors
stage_after == [date |-> "check", check |-> "fallback", fallback |-> "build"]

\* with(used_indices, idx): used_indices after used_indices.add(idx), idx not None
Reserve(used, idx) == IF idx # NoIndex THEN used \cup {idx} ELSE used

\* extract_entities(t), up to the try block
ExtractCall(t) ==
    /\ epc = "idle"
    /\ text' = t
    /\ IF t = ""
       THEN /\ epc' = "returned"
            /\ entities' = _create_empty_entities
       ELSE /\ epc' = "preprocess"
            /\ entities' = NoneDict
    /\ UNCHANGED <<clean_text, lines, used_indices, certificate_title, person_name,
                   organization, issue_date, invoked>>
    /\ UNCHANGED <<verify_vars, score_vars, calls_vars, similarity_vars, rate_vars, api_vars>>

Preprocess ==
    /\ epc = "preprocess"
    /\ clean_text' = preprocess(text)
    /\ lines' = get_lines(preprocess(text))
    /\ used_indices' = {}
    /\ epc' = "title"
    /\ UNCHANGED <<text, certificate_title, person_name, organization, issue_date, invoked,
                   entities>>
    /\ UNCHANGED <<verify_vars, score_vars, calls_vars, similarity_vars, rate_vars, api_vars>>

ExtractTitle ==
    /\ epc = "title"
    /\ certificate_title' = extract_certificate_title(lines)
    /\ used_indices' = Reserve(used_indices, extract_certificate_title(lines).idx)
    /\ invoked' = invoked \cup {"rule_based"}
    /\ epc' = "person"
    /\ UNCHANGED <<text, clean_text, lines, person_name, organization, issue_date, entities>>
    /\ UNCHANGED <<verify_vars, score_vars, calls_vars, similarity_vars, rate_vars, api_vars>>

ExtractPerson ==
    /\ epc = "person"
    /\ person_name' = extract_person_name(lines, certificate_title.idx, used_indices)
    /\ used_indices' = Reserve(used_indices, person_name'.idx)
    /\ epc' = "organization"
    /\ UNCHANGED <<text, clean_text, lines, certificate_title, organization, issue_date,
                   invoked, entities>>
    /\ UNCHANGED <<verify_vars, score_vars, calls_vars, similarity_vars, rate_vars, api_vars>>

ExtractOrganization ==
    /\ epc = "organization"
    /\ organization' = extract_organization(lines, used_indices, certificate_title.idx)
    /\ used_indices' = Reserve(used_indices, organization'.idx)
    /\ epc' = "date"
    /\ UNCHANGED <<text, clean_text, lines, certificate_title, person_name, issue_date,
                   invoked, entities>>
    /\ UNCHANGED <<verify_vars, score_vars, calls_vars, similarity_vars, rate_vars, api_vars>>

ExtractDate ==
    /\ epc = "date"
    /\ issue_date' = extract_issue_date(clean_text)
    /\ epc' = stage_after["date"]
    /\ UNCHANGED <<text, clean_text, lines, used_indices, certificate_title, person_name,
                   organization, invoked, entities>>
    /\ UNCHANGED <<verify_vars, score_vars, calls_vars, similarity_vars, rate_vars, api_vars>>

\* if person_name and certificate_title and person_name.strip().lower() ==
\* certificate_title.strip().lower(): person_name = None; person_method = "discarded"
consistency_checked(person, title) ==
    IF /\ Truthy(person.value)
       /\ Truthy(title.value)
       /\ lower(strip(person.value)) = lower(strip(title.value))
    THEN [person EXCEPT !.value = None, !.method = "discarded"]
    ELSE person

\* Validation: avoid person == certificate title
ConsistencyCheck ==
    /\ epc = "check"
    /\ person_name' = consistency_checked(person_name, certificate_title)
    /\ invoked' = invoked \cup {"check"}
    /\ epc' = stage_after["check"]
    /\ UNCHANGED <<text, clean_text, lines, used_indices, certificate_title, organization,
                   issue_date, entities>>
    /\ UNCHANGED <<verify_vars, score_vars, calls_vars, similarity_vars, rate_vars, api_vars>>

\* a variant of needs_fallback that consults the recognizer in every call
always_fallback == TRUE

\* a variant of accepts_candidate that takes whatever the recognizer reports
accepts_any_candidate(candidate, certificate_title_value) == TRUE

\* self._is_valid_name(candidate) and (not certificate_title or
\*     candidate.strip().lower() != certificate_title.strip().lower())
accepts_candidate(candidate, certificate_title_value) ==
    /\ _is_valid_name(candidate)
    /\ \/ ~Truthy(certificate_title_value)
       \/ lower(strip(candidate)) # lower(strip(certificate_title_value))

\* person_name is None or organization is None or issue_date is None
any_missing(person, org, date) ==
    person.value = None \/ org.value = None \/ date.value = None

needs_fallback == any_missing(person_name, organization, issue_date)

\* the three locals after the assignments of the fallback block
fallback_filled(person, org, date, title, spacy_results) ==
    [person_name |->
        IF /\ person.value = None
           /\ Truthy(DictGet(spacy_results, "person_name", None))
           /\ accepts_candidate(spacy_results["person_name"], title.value)
        THEN [person EXCEPT !.value = spacy_results["person_name"], !.method = "spacy"]
        ELSE person,
     organization |->
        IF org.value = None /\ Truthy(DictGet(spacy_results, "organization", None))
        THEN [org EXCEPT !.value = spacy_results["organization"], !.method = "spacy"]
        ELSE org,
     issue_date |->
        IF date.value = None /\ Truthy(DictGet(spacy_results, "issue_date", None))
        THEN [value |-> spacy_results["issue_date"], method |-> "spacy"]
        ELSE date]

\* entities = {...}
built_entities(person, org, title, date, clean) ==
    [person_name |-> person.value,
     organization |-> org.value,
     certificate_title |-> title.value,
     issue_date |-> date.value,
     registration_number |-> _extract_registration_number(clean)]

NoFallback ==
    /\ epc = "fallback"
    /\ ~needs_fallback
    /\ epc' = stage_after["fallback"]
    /\ UNCHANGED <<text, clean_text, lines, used_indices, certificate_title, person_name,
                   organization, issue_date, invoked, entities>>
    /\ UNCHANGED <<verify_vars, score_vars, calls_vars, similarity_vars, rate_vars, api_vars>>

SpacyFallback(spacy_results) ==
    /\ epc = "fallback"
    /\ needs_fallback
    /\ person_name' = fallback_filled(person_name, organization, issue_date,
                                       certificate_title, spacy_results).person_name
    /\ organization' = fallback_filled(person_name, organization, issue_date,
                                        certificate_title, spacy_results).organization
    /\ issue_date' = fallback_filled(person_name, organization, issue_date,
                                      certificate_title, spacy_results).issue_date
    /\ invoked' = invoked \cup {"spacy"}
    /\ epc' = stage_after["fallback"]
    /\ UNCHANGED <<text, clean_text, lines, used_indices, certificate_title, entities>>
    /\ UNCHANGED <<verify_vars, score_vars, calls_vars, similarity_vars, rate_vars, api_vars>>

\* entities = {...}; return entities
BuildEntities ==
    /\ epc = "build"
    /\ entities' = built_entities(person_name, organization, certificate_title, issue_date,
                                   clean_text)
    /\ epc' = "returned"
    /\ UNCHANGED <<text, clean_text, lines, used_indices, certificate_title, person_name,
                   organization, issue_date, invoked>>
    /\ UNCHANGED <<verify_vars, score_vars, calls_vars, similarity_vars, rate_vars, api_vars>>

\* a step of the try block raises
ExtractionRaises ==
    /\ epc \in TrySteps
    /\ epc' = extract_except.pc
    /\ entities' = extract_except.entities
    /\ UNCHANGED <<text, clean_text, lines, used_indices, certificate_title, person_name,
                   organization, issue_date, invoked>>
    /\ UNCHANGED <<verify_vars, score_vars, calls_vars, similarity_vars, rate_vars, api_vars>>

\* the caller has the record; the service is idle again
ExtractReturn ==
    /\ epc = "returned"
    /\ text' = None
    /\ epc' = "idle"
    /\ clean_text' = None
    /\ lines' = <<>>
    /\ used_indices' = {}
    /\ certificate_title' = NotExtracted
    /\ person_name' = NotExtracted
    /\ organization' = NotExtracted
    /\ issue_date' = NoDate
    /\ invoked' = {}
    /\ entities' = NoneDict
    /\ UNCHANGED <<verify_vars, score_vars, calls_vars, similarity_vars, rate_vars, api_vars>>

Next ==
    \/ \E t \in InputTexts : ExtractCall(t)
    \/ Preprocess
    \/ ExtractTitle
    \/ ExtractPerson
    \/ ExtractOrganization
    \/ ExtractDate
    \/ ConsistencyCheck
    \/ NoFallback
    \/ \E spacy_results \in SpacyResults(lines) : SpacyFallback(spacy_results)
    \/ BuildEntities
    \/ ExtractionRaises
    \/ ExtractReturn

Spec == Init /\ [][Next]_vars

(***************************************************************************)
(* Properties of extract_entities (checked under Spec)                     *)
(***************************************************************************)
\* the line numbers that supplied the rule-based title, name and organization
SupplyingIndices == <<certificate_title.idx, person_name.idx, organization.idx>>

LineExclusive ==
    /\ \A a, b \in 1..3 :
          (a # b /\ SupplyingIndices[a] # NoIndex /\ SupplyingIndices[b] # NoIndex)
              => SupplyingIndices[a] # SupplyingIndices[b]
    /\ used_indices = {SupplyingIndices[a] : a \in 1..3} \ {NoIndex}

\* C1: within one call of extract_entities the line numbers that supply the rule-based
\* certificate title, person name and organization are pairwise distinct (no line serves
\* two fields), the reserved set is exactly those line numbers, and from one step of the
\* call to the next the reserved set only grows.
C1_LineExclusivity ==
    /\ []LineExclusive
    /\ [][epc' # "idle" => used_indices \subseteq used_indices']_vars

\* a call that found all three fields by rule, each on a line of its own
C1_ThreeLinesReserved ==
    /\ epc = "returned"
    /\ certificate_title.value # None
    /\ person_name.method = "rule_based"
    /\ organization.method = "rule_based"
    /\ Cardinality(used_indices) = 3

\* C5: extract_entities never raises; whatever it returns, also after a step of its try
\* block raised, is a record of exactly the five fields person_name, organization,
\* certificate_title, issue_date and registration_number; for the empty string all five
\* are None and neither the rule-based extractor nor the fallback recognizer has run.
C5_ExtractAlwaysReturns ==
    /\ epc # "raised"
    /\ epc = "returned" =>
          /\ DOMAIN entities = EntityFields
          /\ text = "" => /\ \A f \in EntityFields : entities[f] = None
                          /\ invoked = {}

\* a call in which a step raised after the rule-based title had been found
C5_RaisedAfterTitle ==
    /\ epc = "returned"
    /\ text # ""
    /\ certificate_title.value # None
    /\ issue_date = NoDate
    /\ entities = _create_empty_entities

\* C11: the fallback recognizer is consulted only in a call in which person_name,
\* organization or issue_date is still None after the rule-based pass; its step gives a
\* value to a field only if that field is None at that moment and leaves every resolved
\* field as it is; it never touches certificate_title, and the certificate_title and
\* registration_number of the returned record are the ones the rule-based extractor finds.
C11_FallbackOnlyFillsNulls ==
    /\ [][("spacy" \in invoked' /\ "spacy" \notin invoked) =>
            /\ person_name.value = None \/ organization.value = None \/ issue_date.value = None
            /\ person_name.value # None => person_name' = person_name
            /\ organization.value # None => organization' = organization
            /\ issue_date.value # None => issue_date' = issue_date
            /\ certificate_title' = certificate_title]_vars
    /\ [](epc = "returned" =>
            /\ \/ entities.registration_number = None
               \/ entities.registration_number = _extract_registration_number(clean_text)
            /\ \/ entities.certificate_title = None
               \/ entities.certificate_title = extract_certificate_title(lines).value)

\* a returned record whose organization came from the recognizer while the name found by
\* rule was kept
C11_FallbackFilledOneField ==
    /\ epc = "returned"
    /\ "spacy" \in invoked
    /\ person_name.method = "rule_based"
    /\ organization.method = "spacy"
    /\ entities.person_name = person_name.value
    /\ entities.organization = organization.value

\* the step gives person_name the candidate of the recognizer
NameFromFallback == person_name'.method = "spacy" /\ person_name.method # "spacy"

C13_NameNeverEqualsTitle ==
    (epc = "returned" /\ entities.person_name # None /\ entities.certificate_title # None)
        => upper(strip(entities.person_name)) # upper(strip(entities.certificate_title))

\* a returned record with a name and a title, from a text in which the line after a name
\* trigger equals the title up to case
C13_TitleLikeLineAfterTrigger ==
    /\ epc = "returned"
    /\ entities.person_name # None
    /\ entities.certificate_title # None
    /\ \E i \in Indices(lines) \ {0} :
          /\ i # certificate_title.idx
          /\ any_in(PERSON_NAME_TRIGGERS, lower(Line(lines, i - 1)))
          /\ upper(Line(lines, i)) = upper(certificate_title.value)

\* C14: if the heuristic of one field raises during extract_entities, only that field
\* becomes None: the extraction is not aborted, so every field that had been resolved
\* when the call returns has its value in the returned record.
C14_FailureKeepsOtherFields ==
    (epc = "returned" /\ text # "") =>
        /\ certificate_title.value # None => entities.certificate_title = certificate_title.value
        /\ person_name.value # None => entities.person_name = person_name.value
        /\ organization.value # None => entities.organization = organization.value
        /\ issue_date.value # None => entities.issue_date = issue_date.value

\* no line has a name, organization or date trigger phrase or a certificate keyword
NoTriggerNoKeyword(ls) ==
    \A k \in DOMAIN ls :
        /\ ~any_in(PERSON_NAME_TRIGGERS, lower(ls[k]))
        /\ ~any_in(ORGANIZATION_TRIGGERS, lower(ls[k]))
        /\ ~any_in(DATE_TRIGGERS, lower(ls[k]))
        /\ ~any_in(CERTIFICATE_KEYWORDS, lower(ls[k]))

\* C15: for a text in which no line contains a name, organization or date trigger phrase
\* and no line contains a certificate keyword, and for which the recognizer supplies
\* nothing, extract_entities returns all five fields None.
C15_NothingWithoutTriggers ==
    (/\ epc = "returned"
     /\ text # ""
     /\ NoTriggerNoKeyword(get_lines(preprocess(text)))
     /\ "spacy" \notin {person_name.method, organization.method, issue_date.method})
        => \A f \in EntityFields : entities[f] = None

\* the lines that contain a certificate keyword, in capitals or not
KeywordLines == {idx \in Indices(lines) : any_in(CERTIFICATE_KEYWORDS, lower(Line(lines, idx)))}
\* those written entirely in capitals and longer than 6 characters
CapsKeywordLines ==
    {idx \in KeywordLines : isupper(Line(lines, idx)) /\ Len(Line(lines, idx)) > 6}
\* those of admissible length
AdmissibleKeywordLines ==
    {idx \in KeywordLines : Len(Line(lines, idx)) > 6 /\ Len(Line(lines, idx)) < 200}

\* C20: once the title stage has run, the title is the first line in document order that
\* is entirely in capitals, longer than 6 characters and contains a certificate keyword,
\* even if a mixed-case keyword line comes earlier; only when there is no such line is it
\* the first keyword line of admissible length (more than 6, fewer than 200 characters);
\* when there is neither, the title is None and the title stage reserves no line.
C20_TitlePriority ==
    "rule_based" \in invoked =>
        /\ CapsKeywordLines # {} =>
              /\ certificate_title.idx = Min(CapsKeywordLines)
              /\ certificate_title.value = Line(lines, Min(CapsKeywordLines))
        /\ (CapsKeywordLines = {} /\ AdmissibleKeywordLines # {}) =>
              /\ certificate_title.idx = Min(AdmissibleKeywordLines)
              /\ certificate_title.value = Line(lines, Min(AdmissibleKeywordLines))
        /\ (CapsKeywordLines = {} /\ AdmissibleKeywordLines = {}) =>
              /\ certificate_title.value = None
              /\ certificate_title.idx = NoIndex
              /\ epc = "person" => used_indices = {}
        /\ certificate_title.idx # NoIndex => certificate_title.idx \in used_indices

\* the title stage chose a line in capitals although a mixed-case keyword line of
\* admissible length comes earlier in the document
C20_CapsAfterMixed ==
    /\ epc = "person"
    /\ certificate_title.idx \in CapsKeywordLines
    /\ \E idx \in AdmissibleKeywordLines : idx < certificate_title.idx

\* the person stage has run and the name it found is still in place
AfterPersonStage == epc \in {"organization", "date", "check"}
\* the line numbers open to the person stage: all but the title line
OpenToPerson == Indices(lines) \ {certificate_title.idx}
\* the first open line after line i, or Len(lines) when there is none
NextOpen(i) == Min({j \in OpenToPerson : j > i} \cup {Len(lines)})
\* the trigger lines whose next open line is a valid name
NameTriggerLines ==
    {i \in Indices(lines) :
        /\ any_in(PERSON_NAME_TRIGGERS, lower(Line(lines, i)))
        /\ NextOpen(i) < Len(lines)
        /\ _is_valid_name(strip(Line(lines, NextOpen(i))))}
\* the open lines that are valid names
ValidNameLines == {idx \in OpenToPerson : _is_valid_name(Line(lines, idx))}

NameShape(name, blanks) ==
    /\ ~isupper(name)
    /\ \A k \in DOMAIN CERTIFICATE_KEYWORDS : ~Contains(lower(name), CERTIFICATE_KEYWORDS[k])
    /\ \A i \in 1..Len(name) : At(name, i) \in Letters \cup blanks \cup {"'", "-", "."}
    /\ Len(split(name)) \in 1..4
    /\ Len(name) \in 3..100

AfterOrganizationStage == epc \in {"date", "check"}
ClosedToOrganization == {certificate_title.idx, person_name.idx} \ {NoIndex}
\* what follows the first occurrence of the trigger on the line, without the blanks and
\* the one ':' or '-' that may separate it from the trigger
TextAfter(line, trigger) ==
    LET first == Min({p \in 1..(Len(line) - Len(trigger) + 1) :
                        SubSeq(lower(line), p, p + Len(trigger) - 1) = trigger})
        rest == SubSeq(line, first + Len(trigger), Len(line))
        body == {p \in 1..Len(rest) : At(rest, p) \notin SpaceSet}
        from == IF body = {} THEN Len(rest) + 1
                ELSE IF At(rest, Min(body)) \in {":", "-"} THEN Min(body) + 1
                ELSE Min(body)
    IN  strip(SubSeq(rest, from, Len(rest)))
\* the triggers on line i whose trailing text is a valid organization, by list position
TrailingOrganizations(i) ==
    {k \in DOMAIN ORGANIZATION_TRIGGERS :
        /\ Contains(lower(Line(lines, i)), ORGANIZATION_TRIGGERS[k])
        /\ _is_valid_organization(TextAfter(Line(lines, i), ORGANIZATION_TRIGGERS[k]))}
NextOpenToOrganization(i) ==
    Min({j \in Indices(lines) : j > i /\ j \notin ClosedToOrganization} \cup {Len(lines)})
FollowingOrganization(i) ==
    /\ NextOpenToOrganization(i) < Len(lines)
    /\ _is_valid_organization(strip(Line(lines, NextOpenToOrganization(i))))
\* the open trigger lines that yield an organization
OrganizationTriggerLines ==
    {i \in Indices(lines) \ ClosedToOrganization :
        /\ any_in(ORGANIZATION_TRIGGERS, lower(Line(lines, i)))
        /\ (TrailingOrganizations(i) # {} \/ FollowingOrganization(i))}

\* C23: the rule-based organization comes from the first open line, in document order,
\* that contains an organization trigger and yields a value: the text after the trigger
\* on that line when it is a valid organization, otherwise the next open line when it is
\* a valid organization; a trigger line that yields neither is passed over. The index of
\* the line that supplied the value is reserved, and neither the trigger line nor the
\* line of the value is a line closed by an earlier stage.
C23_OrganizationScan ==
    AfterOrganizationStage =>
        IF OrganizationTriggerLines = {}
        THEN organization.value = None /\ organization.idx = NoIndex
        ELSE LET i == Min(OrganizationTriggerLines)
             IN  /\ organization.idx \in used_indices \ ClosedToOrganization
                 /\ IF TrailingOrganizations(i) # {}
                    THEN /\ organization.idx = i
                         /\ organization.value =
                                TextAfter(Line(lines, i),
                                          ORGANIZATION_TRIGGERS[Min(TrailingOrganizations(i))])
                    ELSE /\ organization.idx = NextOpenToOrganization(i)
                         /\ organization.value = strip(Line(lines, organization.idx))

\* the organization was taken from the line after a trigger line, past a closed line,
\* and an earlier open trigger line had yielded nothing
C23_NextLinePastClosedLine ==
    /\ AfterOrganizationStage
    /\ organization.value # None
    /\ \E i \in Indices(lines) :
            /\ i = Min(OrganizationTriggerLines)
            /\ TrailingOrganizations(i) = {}
            /\ organization.idx > i + 1
            /\ \E h \in Indices(lines) \ ClosedToOrganization :
                    h < i /\ any_in(ORGANIZATION_TRIGGERS, lower(Line(lines, h)))

\* the candidates the organization scan can examine: the text after a trigger on an
\* open trigger line, and the open line that follows it
OrganizationCandidates ==
    UNION {{TextAfter(Line(lines, i), ORGANIZATION_TRIGGERS[k]) :
                k \in {n \in DOMAIN ORGANIZATION_TRIGGERS :
                          Contains(lower(Line(lines, i)), ORGANIZATION_TRIGGERS[n])}}
           \cup {strip(Line(lines, j)) : j \in {NextOpenToOrganization(i)} \cap Indices(lines)} :
           i \in {h \in Indices(lines) \ ClosedToOrganization :
                     any_in(ORGANIZATION_TRIGGERS, lower(Line(lines, h)))}}
Alphabetic(org) == Cardinality({i \in 1..Len(org) : At(org, i) \in Letters})

\* C24: an organization candidate is accepted exactly when it has 3 to 200 characters
\* and at least half of them are alphabetic, a candidate with exactly half included: so
\* the scan finds an organization exactly when one of the candidates it can examine is
\* of that kind.
C24_HalfAlphabeticAccepted ==
    AfterOrganizationStage =>
        (organization.value # None
            <=> \E org \in OrganizationCandidates :
                    /\ Len(org) \in 3..200
                    /\ 2 * Alphabetic(org) >= Len(org))

\* the string stands in the text as a whole number group: no digit before it or after it
StandsWhole(str, t) ==
    \E p \in 1..(Len(t) - Len(str) + 1) :
        /\ SubSeq(t, p, p + Len(str) - 1) = str
        /\ p = 1 \/ At(t, p - 1) \notin DigitSet
        /\ p + Len(str) - 1 = Len(t) \/ At(t, p + Len(str)) \notin DigitSet

\* C25: the date extract_issue_date returns is a date of the text in full (the whole of
\* '2023-06-15' for 'Issued on: 2023-06-15'), never a part of it cut inside a number.
C25_DateInFull ==
    (epc = "check" /\ issue_date.value # None) => StandsWhole(issue_date.value, clean_text)

\* C26: the line extract_person_name returns as the name never contains a name-trigger
\* phrase itself.
C26_TriggerLineNeverName ==
    (AfterPersonStage /\ person_name.value # None)
        => ~any_in(PERSON_NAME_TRIGGERS, lower(Line(lines, person_name.idx)))

\* C27: the consistency check of extract_entities never discards a name. A title found
\* by rule contains a certificate keyword, a name found by rule contains none, so the
\* two are never equal up to case and surrounding blanks, and no call reaches the
\* branch that sets the method tag "discarded".
C27_DiscardUnreachable ==
    /\ person_name.method # "discarded"
    /\ (epc = "check" /\ certificate_title.value # None)
            => any_in(CERTIFICATE_KEYWORDS, lower(certificate_title.value))
    /\ (epc = "check" /\ person_name.value # None)
            => ~any_in(CERTIFICATE_KEYWORDS, lower(person_name.value))
    /\ (epc = "check" /\ person_name.value # None /\ certificate_title.value # None)
            => lower(strip(person_name.value)) # lower(strip(certificate_title.value))

\* the check has run on a name and a title both found by rule, in a text where another
\* line reads as the title does
C27_CheckKeptName ==
    /\ epc = "fallback"
    /\ "check" \in invoked
    /\ person_name.method = "rule_based"
    /\ certificate_title.method = "rule_based"
    /\ \E idx \in Indices(lines) \ {certificate_title.idx} :
            lower(Line(lines, idx)) = lower(certificate_title.value)

(***************************************************************************)
(* IntelligentVerificationEngine.verify, one loop iteration at a time      *)
(***************************************************************************)
\* the caller installs another reference collection
ReplaceReferences(c) ==
    /\ vpc = "idle"
    /\ valid_certificates' = c
    /\ UNCHANGED <<extracted_entities, vpc, cert_i, best, result>>
    /\ UNCHANGED <<extract_vars, score_vars, calls_vars, similarity_vars, rate_vars, api_vars>>

\* verify(entities), up to the first iteration of _find_best_match
VerifyCall(e) ==
    /\ vpc = "idle"
    /\ extracted_entities' = e
    /\ cert_i' = 0
    /\ best' = NoBest
    /\ IF no_entities(e)
       THEN /\ vpc' = "returned"
            /\ result' = _create_result("NOT_VERIFIED", <<>>, NoneDict, NoneDict, NoneDict,
                                        "No extractable entities found")
       ELSE /\ vpc' = "scan"
            /\ result' = NoneDict
    /\ UNCHANGED valid_certificates
    /\ UNCHANGED <<extract_vars, score_vars, calls_vars, similarity_vars, rate_vars, api_vars>>

\* one iteration of the loop of _find_best_match
ScoreRecord ==
    /\ vpc = "scan"
    /\ cert_i < Len(valid_certificates)
    /\ best' = scan_step(best, extracted_entities, valid_certificates[cert_i + 1])
    /\ cert_i' = cert_i + 1
    /\ UNCHANGED <<valid_certificates, extracted_entities, vpc, result>>
    /\ UNCHANGED <<extract_vars, score_vars, calls_vars, similarity_vars, rate_vars, api_vars>>

\* an exception is raised while a record is scored
ScoringRaises ==
    /\ vpc = "scan"
    /\ cert_i < Len(valid_certificates)
    /\ vpc' = verify_except.pc
    /\ result' = verify_except.result
    /\ UNCHANGED <<valid_certificates, extracted_entities, cert_i, best>>
    /\ UNCHANGED <<extract_vars, score_vars, calls_vars, similarity_vars, rate_vars, api_vars>>

\* the loop is over: verify classifies the best match and returns
Finish ==
    /\ vpc = "scan"
    /\ cert_i = Len(valid_certificates)
    /\ vpc' = "returned"
    /\ result' = verdict_of(best)
    /\ UNCHANGED <<valid_certificates, extracted_entities, cert_i, best>>
    /\ UNCHANGED <<extract_vars, score_vars, calls_vars, similarity_vars, rate_vars, api_vars>>

\* the caller has the verdict; the engine is idle again
Return ==
    /\ vpc = "returned"
    /\ vpc' = "idle"
    /\ extracted_entities' = NoneDict
    /\ cert_i' = 0
    /\ best' = NoBest
    /\ result' = NoneDict
    /\ UNCHANGED valid_certificates
    /\ UNCHANGED <<extract_vars, score_vars, calls_vars, similarity_vars, rate_vars, api_vars>>

VerifyNext ==
    \/ \E c \in ReferenceCollections : ReplaceReferences(c)
    \/ \E e \in EntityPool : VerifyCall(e)
    \/ ScoreRecord
    \/ ScoringRaises
    \/ Finish
    \/ Return

SpecVerify == Init /\ [][VerifyNext]_vars

(***************************************************************************)
(* Properties of verify (checked under SpecVerify)                         *)
(***************************************************************************)
\* the extracted record is None, {} or has only None and "" as values
EmptyRecord(e) ==
    IF e = NoneDict THEN TRUE ELSE \A k \in DOMAIN e : e[k] \in {None, ""}

\* the overall score of the extracted record against the reference record number i
OverallOf(i) == score_record(extracted_entities, valid_certificates[i]).overall_score

\* the largest of a set of scores (0.0 for no score at all)
LargestOf(scores) ==
    IF scores = {} THEN <<>> ELSE CHOOSE x \in scores : \A y \in scores : ~FLess(x, y)

\* the largest overall score over the reference collection (0.0 for an empty collection)
BestOverall == LargestOf({OverallOf(i) : i \in DOMAIN valid_certificates})

\* verify has returned after _find_best_match scanned the whole collection
ScanCompleted ==
    vpc = "returned" /\ ~EmptyRecord(extracted_entities) /\ cert_i = Len(valid_certificates)

\* verify has returned because scoring a record raised
ScoringFailed ==
    vpc = "returned" /\ ~EmptyRecord(extracted_entities) /\ cert_i < Len(valid_certificates)

\* the status is the one the thresholds 85 and 60 give a score above 0
ClassifiedBy(status, score) ==
    FLess(<<>>, score) =>
        /\ status \in {"VERIFIED", "PARTIALLY_VERIFIED", "NOT_VERIFIED"}
        /\ status = "VERIFIED" <=> FGeq(score, FloatOfInt(85))
        /\ status = "PARTIALLY_VERIFIED" <=>
              (FGeq(score, FloatOfInt(60)) /\ FLess(score, FloatOfInt(85)))
        /\ status = "NOT_VERIFIED" <=> FLess(score, FloatOfInt(60))

\* C2: when the best overall score over the reference collection is greater than 0,
\* verify returns VERIFIED exactly when that score is >= 85, PARTIALLY_VERIFIED exactly
\* when it is >= 60 and < 85, NOT_VERIFIED exactly when it is < 60; the thresholds are
\* 85 > 60 > 0, so exactly one verdict applies.
C2_ThresholdClassification ==
    /\ VERIFIED_THRESHOLD = FloatOfInt(85)
    /\ PARTIALLY_VERIFIED_THRESHOLD = FloatOfInt(60)
    /\ FLess(PARTIALLY_VERIFIED_THRESHOLD, VERIFIED_THRESHOLD)
    /\ FLess(<<>>, PARTIALLY_VERIFIED_THRESHOLD)
    /\ ScanCompleted => ClassifiedBy(result.verification_status, BestOverall)

\* verdicts on the two boundaries: a best score of exactly 85.0, one of exactly 60.0
C2_OnTheThreshold ==
    /\ ScanCompleted
    /\ \/ BestOverall = FloatOfInt(85) /\ result.verification_status = "VERIFIED"
       \/ BestOverall = FloatOfInt(60) /\ result.verification_status = "PARTIALLY_VERIFIED"

\* the first record, in iteration order, whose overall score is the largest
FirstMaximum ==
    Min({i \in DOMAIN valid_certificates :
            \A j \in DOMAIN valid_certificates : ~FLess(OverallOf(i), OverallOf(j))})

\* C4: what _find_best_match returns once it has scanned the whole (non-empty)
\* collection is the record with the maximum overall score, the earliest-iterated one
\* among the records with that score.
C4_BestIsFirstMaximum ==
    (vpc = "scan" /\ cert_i = Len(valid_certificates) /\ valid_certificates # <<>>)
        => best.match = valid_certificates[FirstMaximum]

\* C6: verify never raises; for an empty reference collection, and when scoring a record
\* raises, it returns NOT_VERIFIED with confidence_score 0.0, no matched record and a
\* reason text.
C6_VerifyNeverRaises ==
    /\ vpc # "raised"
    /\ (vpc = "returned" /\ (valid_certificates = <<>> \/ ScoringFailed)) =>
          /\ result.verification_status = "NOT_VERIFIED"
          /\ result.confidence_score = 0
          /\ result.matched_record = NoneDict
          /\ result.reason # None

\* scoring raised after an earlier record had already scored above 0
C6_RaisedAfterAMatch ==
    ScoringFailed /\ best.score # <<>> /\ result.reason = "Verification error"

\* C7: when the extracted record is empty, or all of its values are empty or None, verify
\* returns NOT_VERIFIED with confidence_score 0.0 and the reason "No extractable entities
\* found", and has scored no reference record.
C7_EmptyRecordShortCircuits ==
    (vpc = "returned" /\ EmptyRecord(extracted_entities)) =>
        /\ result.verification_status = "NOT_VERIFIED"
        /\ result.confidence_score = 0
        /\ result.reason = "No extractable entities found"
        /\ cert_i = 0
        /\ best = NoBest

\* an all-None record verified against a non-empty collection
C7_AllNoneAgainstRecords ==
    /\ vpc = "returned"
    /\ extracted_entities = Entities(None, None, None, None, None)
    /\ valid_certificates # <<>>
    /\ result.reason = "No extractable entities found"

\* the field-score map of a record that matches nothing
AllZero == [f \in WeightedFields |-> 0]

\* C8: when the extracted record has a non-empty field and every reference record scores
\* 0 overall, verify returns NOT_VERIFIED with confidence_score 0.0 and a field-score map
\* (in field_scores or, as diagnostics, in mismatches) holding each of the four weighted
\* fields with score 0.
C8_ZeroMatchKeepsFieldScores ==
    (/\ ScanCompleted
     /\ valid_certificates # <<>>
     /\ \A i \in DOMAIN valid_certificates : OverallOf(i) = <<>>) =>
        /\ result.verification_status = "NOT_VERIFIED"
        /\ result.confidence_score = 0
        /\ result.field_scores = AllZero \/ result.mismatches = AllZero

\* C9: in a verdict with a matched record, each weighted field has a mismatch entry
\* {extracted, expected, similarity_score} exactly when its score against the matched
\* record is strictly between 0 and 100, or is 0 with a non-empty extracted value.
C9_MismatchEntries ==
    (vpc = "returned" /\ result.matched_record # NoneDict) =>
        \A f \in WeightedFields :
            LET s == _calculate_field_scores(extracted_entities, result.matched_record)[f]
                value == DictGet(extracted_entities, f, None)
                entry == result.mismatches # NoneDict /\ f \in DOMAIN result.mismatches
            IN  /\ entry <=> ((0 < s /\ s < 100) \/ (s = 0 /\ value \notin {None, ""}))
                /\ entry => result.mismatches[f] =
                                [extracted |-> value,
                                 expected |-> result.matched_record[f],
                                 similarity_score |-> s]

\* one verdict with a field of each kind: scoring 100, scoring in between, scoring 0 with
\* a value, scoring 0 without a value
C9_EveryKindOfField ==
    /\ vpc = "returned"
    /\ result.matched_record # NoneDict
    /\ result.mismatches # NoneDict
    /\ result.field_scores["person_name"] = 100
    /\ "person_name" \notin DOMAIN result.mismatches
    /\ result.field_scores["organization"] = 0
    /\ "organization" \in DOMAIN result.mismatches
    /\ result.field_scores["certificate_title"] = 0
    /\ "certificate_title" \notin DOMAIN result.mismatches
    /\ result.field_scores["issue_date"] = 80
    /\ "issue_date" \in DOMAIN result.mismatches

\* C10: the mismatches of a verdict are None or a map with at least one entry, never an
\* empty map.
C10_MismatchesNeverEmptyMap ==
    vpc = "returned" => result.mismatches # EmptyDict

\* C28: a verdict has a matched record exactly when its confidence_score is above 0, and
\* then its field_scores and mismatches are the ones computed against that record, and
\* its confidence_score is 0.40*person_name + 0.30*organization + 0.20*certificate_title
\* + 0.10*issue_date of those field_scores (confidence_score is kept in hundredths).
C28_VerdictOfOneRecord ==
    vpc = "returned" =>
        /\ result.matched_record # NoneDict <=> result.confidence_score > 0
        /\ result.matched_record # NoneDict =>
                LET scores == _calculate_field_scores(extracted_entities, result.matched_record)
                IN  /\ result.field_scores = scores
                    /\ result.mismatches =
                           _identify_mismatches(extracted_entities, result.matched_record, scores)
                    /\ result.confidence_score =
                           40 * DictGet(result.field_scores, "person_name", 0)
                           + 30 * DictGet(result.field_scores, "organization", 0)
                           + 20 * DictGet(result.field_scores, "certificate_title", 0)
                           + 10 * DictGet(result.field_scores, "issue_date", 0)

\* the matched record of the verdict was scanned between two records that score
\* otherwise on some field
C28_MatchedBetweenOthers ==
    /\ vpc = "returned"
    /\ result.matched_record # NoneDict
    /\ \E i, j, k \in DOMAIN valid_certificates :
            /\ i < j /\ j < k
            /\ valid_certificates[j] = result.matched_record
            /\ _calculate_field_scores(extracted_entities, valid_certificates[i])
                    # result.field_scores
            /\ _calculate_field_scores(extracted_entities, valid_certificates[k])
                    # result.field_scores

(***************************************************************************)
(* _calculate_overall_score on its own, over score maps with missing keys  *)
(***************************************************************************)
ScoreValues == {0, 29, 57, 70, 100}
ScoreMaps == UNION {[fields -> ScoreValues] : fields \in SUBSET WeightedFields}

ScoreCall(scores) ==
    /\ field_scores = NoneDict
    /\ field_scores' = scores
    /\ overall_score' = _calculate_overall_score(scores)
    /\ UNCHANGED <<extract_vars, verify_vars, calls_vars, similarity_vars, rate_vars, api_vars>>

ScoreReturn ==
    /\ field_scores # NoneDict
    /\ field_scores' = NoneDict
    /\ overall_score' = <<>>
    /\ UNCHANGED <<extract_vars, verify_vars, calls_vars, similarity_vars, rate_vars, api_vars>>

ScoreNext ==
    \/ \E scores \in ScoreMaps : ScoreCall(scores)
    \/ ScoreReturn

SpecScore == Init /\ [][ScoreNext]_vars

(***************************************************************************)
(* Properties of _calculate_overall_score (checked under SpecScore)        *)
(***************************************************************************)
\* 0.40*p + 0.30*o + 0.20*t + 0.10*d in hundredths, a missing score counted as 0
WeightedHundredths(scores) ==
    40 * DictGet(scores, "person_name", 0) + 30 * DictGet(scores, "organization", 0)
        + 20 * DictGet(scores, "certificate_title", 0) + 10 * DictGet(scores, "issue_date", 0)

\* the float nearest to 0.40*p + 0.30*o + 0.20*t + 0.10*d
WeightedSum(scores) == FloatLiteral(WeightedHundredths(scores), 100)

\* C3: the overall score equals 0.40*person_name + 0.30*organization +
\* 0.20*certificate_title + 0.10*issue_date with a missing field score counted as 0: it
\* is that sum to the two decimals of a confidence_score and it classifies as that sum
\* does; field scores in [0,100] give an overall score in [0,100], four scores of 100
\* give 100, and scores (100, 70, 0, 0) give 61, which classifies as PARTIALLY_VERIFIED.
C3_WeightedSumExact ==
    field_scores # NoneDict =>
        /\ round2(overall_score) = WeightedHundredths(field_scores)
        /\ status_of(overall_score) = status_of(WeightedSum(field_scores))
        /\ ~FLess(FloatOfInt(100), overall_score)
        /\ field_scores = [f \in WeightedFields |-> 100] => overall_score = FloatOfInt(100)
        /\ (/\ DictGet(field_scores, "person_name", 0) = 100
            /\ DictGet(field_scores, "organization", 0) = 70
            /\ DictGet(field_scores, "certificate_title", 0) = 0
            /\ DictGet(field_scores, "issue_date", 0) = 0) =>
                /\ overall_score = FloatOfInt(61)
                /\ status_of(overall_score) = "PARTIALLY_VERIFIED"

(***************************************************************************)
(* _fuzzy_match and _date_match_score on their own                         *)
(***************************************************************************)
\* values of person_name, organization and certificate_title
FieldValues ==
    { None, "", "John Smith", "  JOHN smith ", "john", "Jon Smyth", "Smith, John",
      "Jane Doe", "MIT", "amid", "--- x", "--- y" }

\* values of issue_date
DateValues ==
    { None, "", " ", "2023-06-15", " 2023-06-15 ", "15/06/2023", "2021 to 2023",
      "2023-01-01", "2021-05-01", "1999-06-15", "June 2019", "12023" }

FuzzyMatchCall(extracted, valid) ==
    /\ similarity = NoneDict
    /\ similarity' = [fn |-> "_fuzzy_match", extracted |-> extracted, valid |-> valid,
                      score |-> _fuzzy_match(extracted, valid)]
    /\ UNCHANGED <<extract_vars, verify_vars, score_vars, calls_vars, rate_vars, api_vars>>

DateMatchCall(extracted_date, valid_date) ==
    /\ similarity = NoneDict
    /\ similarity' = [fn |-> "_date_match_score", extracted |-> extracted_date,
                      valid |-> valid_date,
                      score |-> _date_match_score(extracted_date, valid_date)]
    /\ UNCHANGED <<extract_vars, verify_vars, score_vars, calls_vars, rate_vars, api_vars>>

SimilarityReturn ==
    /\ similarity # NoneDict
    /\ similarity' = NoneDict
    /\ UNCHANGED <<extract_vars, verify_vars, score_vars, calls_vars, rate_vars, api_vars>>

SimilarityNext ==
    \/ \E extracted, valid \in FieldValues : FuzzyMatchCall(extracted, valid)
    \/ \E extracted_date, valid_date \in DateValues : DateMatchCall(extracted_date, valid_date)
    \/ SimilarityReturn

SpecSimilarity == Init /\ [][SimilarityNext]_vars

(***************************************************************************)
(* Properties of the similarity functions (checked under SpecSimilarity)   *)
(***************************************************************************)
\* the whitespace-delimited tokens of a string, in lower case
TokenSet(s) == SeqToSet(split(lower(s)))

\* C17: the similarity of two field values is 0 if either is empty; for non-empty values
\* it is 100 when they are equal after lower-casing and trimming, otherwise 0 when their
\* sets of whitespace-delimited tokens are disjoint, and otherwise (they share a token)
\* greater than 0 and at most 100.
C17_TokenSimilarity ==
    (similarity # NoneDict /\ similarity.fn = "_fuzzy_match") =>
        IF ~Truthy(similarity.extracted) \/ ~Truthy(similarity.valid)
        THEN similarity.score = 0
        ELSE IF strip(lower(similarity.extracted)) = strip(lower(similarity.valid))
        THEN similarity.score = 100
        ELSE IF TokenSet(similarity.extracted) \cap TokenSet(similarity.valid) = {}
        THEN similarity.score = 0
        ELSE similarity.score > 0 /\ similarity.score <= 100

\* the 4-digit years of the form 20dd in a string, by the position where they start
YearStarts(s) ==
    {i \in 1..(Len(s) - 3) :
        /\ At(s, i) = "2"
        /\ At(s, i + 1) = "0"
        /\ At(s, i + 2) \in DigitSet
        /\ At(s, i + 3) \in DigitSet}
FirstYear(s) == SubSeq(s, Min(YearStarts(s)), Min(YearStarts(s)) + 3)

\* C18: the similarity of two issue dates is 0 if either is empty; otherwise 100 if the
\* trimmed strings are identical; otherwise exactly 80 if both contain a year 20dd and
\* the first such year of each is the same; otherwise the character ratio of the trimmed
\* strings, which lies in 0..100.  The rules apply in that order.
C18_DateScoreRules ==
    (similarity # NoneDict /\ similarity.fn = "_date_match_score") =>
        IF ~Truthy(similarity.extracted) \/ ~Truthy(similarity.valid)
        THEN similarity.score = 0
        ELSE IF strip(similarity.extracted) = strip(similarity.valid)
        THEN similarity.score = 100
        ELSE IF /\ YearStarts(strip(similarity.extracted)) # {}
                /\ YearStarts(strip(similarity.valid)) # {}
                /\ FirstYear(strip(similarity.extracted)) = FirstYear(strip(similarity.valid))
        THEN similarity.score = 80
        ELSE /\ similarity.score = fuzz_ratio(strip(similarity.extracted), strip(similarity.valid))
             /\ similarity.score \in 0..100

\* two dates that differ, whose first years agree although one of them goes on to name
\* another year: the score is 80
C18_SameFirstYear ==
    /\ similarity # NoneDict
    /\ similarity.fn = "_date_match_score"
    /\ similarity.score = 80
    /\ Cardinality(YearStarts(similarity.extracted)) = 1
    /\ Cardinality(YearStarts(similarity.valid)) = 2

(***************************************************************************)
(* RateLimiter.is_allowed as upload_certificate calls it                   *)
(* (src/core/rate_limiting.py, src/api/routes_v2.py).  Time is counted in  *)
(* ticks; timedelta(minutes=1) is Minute ticks.                            *)
(***************************************************************************)
\* rate_limiter = RateLimiter(requests_per_minute=...), scaled down
requests_per_minute == 2
\* timedelta(minutes=1), in ticks
Minute == 2
\* the clock is followed up to this tick
MaxTime == 4

\* a variant of recent that never forgets a request
recent_unpruned(req_times, one_minute_ago) == req_times

\* [req_time for req_time in self.requests[identifier] if req_time > one_minute_ago]
recent(req_times, one_minute_ago) ==
    SelectSeq(req_times, LAMBDA req_time : req_time > one_minute_ago)

\* is_allowed(identifier) at time t: self.requests afterwards, and the value returned
is_allowed(reqs, identifier, t) ==
    LET kept == recent(DictGet(reqs, identifier, <<>>), t - Minute)
        allowed == ~(Len(kept) >= requests_per_minute)
    IN  [requests |-> [i \in DOMAIN reqs \cup {identifier} |->
                          IF i # identifier THEN reqs[i]
                          ELSE IF allowed THEN Append(kept, t) ELSE kept],
         allowed |-> allowed]

\* upload_certificate from client_ip, up to the rate-limit test: 429 or go on
UploadCertificate(client_ip) ==
    /\ requests' = is_allowed(requests, client_ip, now).requests
    /\ outcome' = [identifier |-> client_ip, time |-> now,
                   allowed |-> is_allowed(requests, client_ip, now).allowed,
                   status |-> IF is_allowed(requests, client_ip, now).allowed
                              THEN "processing" ELSE "429"]
    /\ granted' = IF is_allowed(requests, client_ip, now).allowed
                  THEN [granted EXCEPT ![client_ip] = Append(@, now)]
                  ELSE granted
    /\ UNCHANGED now
    /\ UNCHANGED <<extract_vars, verify_vars, score_vars, calls_vars, similarity_vars, api_vars>>

\* datetime.utcnow() moves on
Tick ==
    /\ now < MaxTime
    /\ now' = now + 1
    /\ UNCHANGED <<requests, granted, outcome>>
    /\ UNCHANGED <<extract_vars, verify_vars, score_vars, calls_vars, similarity_vars, api_vars>>

RateNext ==
    \/ \E client_ip \in Identifiers : UploadCertificate(client_ip)
    \/ Tick

SpecRate == Init /\ [][RateNext]_vars

(***************************************************************************)
(* Properties of the rate limiter (checked under SpecRate)                 *)
(***************************************************************************)
\* how many calls of the identifier were allowed at the ticks lo..hi
GrantedIn(identifier, lo, hi) ==
    Cardinality({k \in DOMAIN granted[identifier] :
                    lo <= granted[identifier][k] /\ granted[identifier][k] <= hi})

\* C19: per identifier, the allowed calls within any window of one minute (Minute
\* consecutive ticks) never exceed requests_per_minute; a call is refused exactly when
\* requests_per_minute allowed calls of the same identifier lie in the minute that ends
\* with the call, so only then; and a call changes nothing that is kept for another
\* identifier, whose calls therefore never change the outcome.
C19_RateLimit ==
    /\ [](\A identifier \in Identifiers : \A start \in 0..MaxTime :
             GrantedIn(identifier, start, start + Minute - 1) <= requests_per_minute)
    /\ [][\A client_ip \in Identifiers :
             (now' = now /\ outcome'.identifier = client_ip
                  /\ <<requests, granted, outcome>> # <<requests', granted', outcome'>>) =>
                 /\ outcome'.allowed =
                        (GrantedIn(client_ip, now - Minute + 1, now) < requests_per_minute)
                 /\ \A other \in Identifiers \ {client_ip} :
                        /\ granted'[other] = granted[other]
                        /\ DictGet(requests', other, <<>>) = DictGet(requests, other, <<>>)]_vars

\* a client is refused while the other client, calling at the same tick, is allowed, and
\* is allowed again once its calls are a minute old
C19_RefusedThenAllowed ==
    /\ outcome # NoneDict
    /\ outcome.allowed
    /\ outcome.time >= Minute
    /\ GrantedIn(outcome.identifier, 0, 0) = requests_per_minute
    /\ \E other \in Identifiers \ {outcome.identifier} : GrantedIn(other, 0, MaxTime) = 0

(***************************************************************************)
(* Concurrent extract_entities calls on the one ner_service instance.      *)
(* Every call has its own locals; self.nlp is the only state they share.   *)
(***************************************************************************)
\* the documents of the concurrent calls
ConcurrentTexts ==
    { "",
      "CERTIFICATE OF MERIT\nawarded to\nJane Doe\nby MIT",
      "JOHN SMITH\nawarded to\nJOHN SMITH\nby\nAcme Corp 12",
      "to Jane Doe 2023",
      "hello world" }

\* self.nlp: None when the model could not be loaded
Recognizers == {None, "en_core_web_sm"}

\* _extract_with_spacy(text): {} without a model; a loaded model is a function of the
\* text, here the one that reports the last two words of the text as a person, the first
\* line as an organization and the first line with a digit as a date
Recognize(model, ls) ==
    IF model = None \/ Len(ls) = 0 THEN EmptyDict
    ELSE LET last == split(ls[Len(ls)])
             dated == {k \in DOMAIN ls :
                          /\ \E i \in 1..Len(ls[k]) : isdigit_char(At(ls[k], i))
                          /\ Len(ls[k]) > 4}
             found == [person_name |-> IF Len(last) >= 2
                                       THEN last[Len(last) - 1] \o " " \o last[Len(last)]
                                       ELSE None,
                       organization |-> ls[1],
                       issue_date |-> IF dated # {} THEN ls[Min(dated)] ELSE None]
         IN  [f \in {g \in SpacyFields : found[g] # None} |-> found[f]]

\* a variant of indices_owner in which all calls use the set of the first call
shared_owner(c) == 1

\* used_indices = set() is a local of the call: each call owns its set
indices_owner(c) == c

\* the step of extract_entities at f.pc, on the locals f and the set used_indices
advance(f, used, model) ==
    CASE f.pc = "preprocess" ->
            [frame |-> [f EXCEPT !.clean_text = preprocess(f.text),
                                 !.lines = get_lines(preprocess(f.text)),
                                 !.pc = "title"],
             used |-> {}]
      [] f.pc = "title" ->
            [frame |-> [f EXCEPT !.certificate_title = extract_certificate_title(f.lines),
                                 !.pc = "person"],
             used |-> Reserve(used, extract_certificate_title(f.lines).idx)]
      [] f.pc = "person" ->
            [frame |-> [f EXCEPT !.person_name =
                                     extract_person_name(f.lines, f.certificate_title.idx, used),
                                 !.pc = "organization"],
             used |-> Reserve(used, extract_person_name(f.lines, f.certificate_title.idx,
                                                        used).idx)]
      [] f.pc = "organization" ->
            [frame |-> [f EXCEPT !.organization =
                                     extract_organization(f.lines, used, f.certificate_title.idx),
                                 !.pc = "date"],
             used |-> Reserve(used, extract_organization(f.lines, used,
                                                         f.certificate_title.idx).idx)]
      [] f.pc = "date" ->
            [frame |-> [f EXCEPT !.issue_date = extract_issue_date(f.clean_text),
                                 !.pc = stage_after["date"]],
             used |-> used]
      [] f.pc = "check" ->
            [frame |-> [f EXCEPT !.person_name =
                                     consistency_checked(f.person_name, f.certificate_title),
                                 !.pc = stage_after["check"]],
             used |-> used]
      [] f.pc = "fallback" ->
            [frame |->
                IF any_missing(f.person_name, f.organization, f.issue_date)
                THEN [f EXCEPT !.person_name =
                                   fallback_filled(f.person_name, f.organization, f.issue_date,
                                                   f.certificate_title,
                                                   Recognize(model, f.lines)).person_name,
                               !.organization =
                                   fallback_filled(f.person_name, f.organization, f.issue_date,
                                                   f.certificate_title,
                                                   Recognize(model, f.lines)).organization,
                               !.issue_date =
                                   fallback_filled(f.person_name, f.organization, f.issue_date,
                                                   f.certificate_title,
                                                   Recognize(model, f.lines)).issue_date,
                               !.pc = stage_after["fallback"]]
                ELSE [f EXCEPT !.pc = stage_after["fallback"]],
             used |-> used]
      [] f.pc = "build" ->
            [frame |-> [f EXCEPT !.entities =
                                     built_entities(f.person_name, f.organization,
                                                    f.certificate_title, f.issue_date,
                                                    f.clean_text),
                                 !.pc = "returned"],
             used |-> used]

\* the frames once call c has the locals f and the set it uses is used
with_step(c, stepped) ==
    [x \in Calls |->
        IF x = indices_owner(c)
        THEN [(IF x = c THEN stepped.frame ELSE frames[x]) EXCEPT !.used_indices = stepped.used]
        ELSE IF x = c THEN stepped.frame ELSE frames[x]]

\* NERService(): the model is loaded, or not; no call is in progress
LoadModel(model) ==
    /\ \A c \in Calls : frames[c].pc = "idle"
    /\ nlp' = model
    /\ UNCHANGED frames
    /\ UNCHANGED <<extract_vars, verify_vars, score_vars, similarity_vars, rate_vars, api_vars>>

\* call c enters extract_entities(t)
CallStart(c, t) ==
    /\ frames[c].pc = "idle"
    /\ frames' = [frames EXCEPT ![c] =
                      IF t = ""
                      THEN [@ EXCEPT !.text = t, !.pc = "returned",
                                     !.entities = _create_empty_entities]
                      ELSE [@ EXCEPT !.text = t, !.pc = "preprocess"]]
    /\ UNCHANGED nlp
    /\ UNCHANGED <<extract_vars, verify_vars, score_vars, similarity_vars, rate_vars, api_vars>>

\* call c takes the next step of its try block
CallStep(c) ==
    /\ frames[c].pc \in TrySteps
    /\ frames' = with_step(c, advance(frames[c], frames[indices_owner(c)].used_indices, nlp))
    /\ UNCHANGED nlp
    /\ UNCHANGED <<extract_vars, verify_vars, score_vars, similarity_vars, rate_vars, api_vars>>

\* the caller of c has the record
CallReturn(c) ==
    /\ frames[c].pc = "returned"
    /\ frames' = [frames EXCEPT ![c] = IdleFrame]
    /\ UNCHANGED nlp
    /\ UNCHANGED <<extract_vars, verify_vars, score_vars, similarity_vars, rate_vars, api_vars>>

CallsNext ==
    \/ \E model \in Recognizers : LoadModel(model)
    \/ \E c \in Calls : \E t \in ConcurrentTexts : CallStart(c, t)
    \/ \E c \in Calls : CallStep(c)
    \/ \E c \in Calls : CallReturn(c)

SpecCalls == Init /\ [][CallsNext]_vars

(***************************************************************************)
(* Properties of concurrent calls (checked under SpecCalls)                *)
(***************************************************************************)
RECURSIVE RunAlone(_, _)
\* the locals of a call that runs from f to its return with no other call in progress
RunAlone(f, model) ==
    IF f.pc \notin TrySteps THEN f
    ELSE RunAlone([advance(f, f.used_indices, model).frame
                       EXCEPT !.used_indices = advance(f, f.used_indices, model).used],
                  model)

\* the record extract_entities(t) returns when it runs alone
RecordAlone(t, model) ==
    IF t = "" THEN _create_empty_entities
    ELSE RunAlone([IdleFrame EXCEPT !.text = t, !.pc = "preprocess"], model).entities

\* C16: the record a call returns depends only on its text (and the recognizer the
\* service has loaded): under every interleaving of the steps of concurrent calls, each
\* call returns the record that extract_entities returns for its text when run alone,
\* so a repeated call returns the same record again; the set of reserved line numbers
\* of a call holds only lines that call reserved.
C16_CallsDoNotInterfere ==
    \A c \in Calls :
        /\ frames[c].pc = "returned" => frames[c].entities = RecordAlone(frames[c].text, nlp)
        /\ frames[c].used_indices \subseteq
               {frames[c].certificate_title.idx, frames[c].person_name.idx,
                frames[c].organization.idx}

\* two calls on different documents have both returned records with a name found by
\* rule, one of which reserved three lines
C16_TwoRecordsReturned ==
    /\ \A c \in Calls : frames[c].pc = "returned" /\ frames[c].person_name.method = "rule_based"
    /\ frames[1].text # frames[2].text
    /\ Cardinality(frames[1].used_indices) = 3

(***************************************************************************)
(* The v2 API: upload_certificate, verify_certificate, get_statistics      *)
(* The answer of the rate limiter, of the file validation and of the       *)
(* verification engine are inputs of the handlers here.                    *)
(***************************************************************************)
MaxCertificates == 2
MaxVerifications == 2
\* the bytes a client may upload
UploadContents == {<<>>, <<37, 80>>}
VerificationStatuses == {"VERIFIED", "PARTIALLY_VERIFIED", "NOT_VERIFIED"}

HTTPException(status_code) == [status_code |-> status_code]

\* UploadFile as the framework hands it to the handler: the stream is at its start
UploadFileOf(content) == [content |-> content, position |-> 0]
\* file.read() and shutil.copyfileobj(file.file, buffer): both take what the stream holds
\* from its position on and leave the stream at its end
read_rest(f) ==
    [data |-> SubSeq(f.content, f.position + 1, Len(f.content)),
     file |-> [f EXCEPT !.position = Len(f.content)]]

\* save_file: a new certificate id, and the file written under it
save_file(f, directory) ==
    LET certificate_id == Len(directory) + 1
        copied == read_rest(f)
    IN  [certificate_id |-> certificate_id,
         file |-> copied.file,
         directory |-> Append(directory, [certificate_id |-> certificate_id,
                                          content |-> copied.data])]

upload_certificate(content, allowed, is_valid, processed) ==
    /\ Len(upload_directory) < MaxCertificates
    /\ LET got == read_rest(UploadFileOf(content))
           file_content == got.data
           saved == save_file(got.file, upload_directory)
       IN  IF ~allowed
           THEN /\ response' = HTTPException(429)
                /\ file' = UploadFileOf(content)
                /\ UNCHANGED <<db_certificates, upload_directory, stats_cache>>
           ELSE IF ~is_valid
           THEN /\ response' = HTTPException(400)
                /\ file' = got.file
                /\ UNCHANGED <<db_certificates, upload_directory, stats_cache>>
           ELSE IF ~processed
           THEN /\ response' = HTTPException(500)
                /\ file' = saved.file
                /\ upload_directory' = saved.directory
                /\ UNCHANGED <<db_certificates, stats_cache>>
           ELSE /\ file' = saved.file
                /\ upload_directory' = saved.directory
                /\ db_certificates' =
                       Append(db_certificates, [certificate_id |-> saved.certificate_id,
                                                file_size |-> Len(file_content)])
                /\ stats_cache' = NoneDict
                /\ response' = [success |-> TRUE,
                                certificate_id |-> saved.certificate_id,
                                file_size |-> Len(file_content)]
    /\ UNCHANGED db_results
    /\ UNCHANGED <<extract_vars, verify_vars, score_vars, calls_vars, similarity_vars, rate_vars>>

verify_certificate(certificate_id, allowed, verification_status) ==
    /\ Len(db_results) < MaxVerifications
    /\ IF ~allowed
       THEN /\ response' = HTTPException(429)
            /\ UNCHANGED <<db_results, stats_cache>>
       ELSE IF \A i \in DOMAIN db_certificates :
                   db_certificates[i].certificate_id # certificate_id
       THEN /\ response' = HTTPException(404)
            /\ UNCHANGED <<db_results, stats_cache>>
       ELSE /\ db_results' = Append(db_results, [certificate_id |-> certificate_id,
                                                  status |-> verification_status])
            /\ stats_cache' = NoneDict
            /\ response' = [success |-> TRUE,
                            certificate_id |-> certificate_id,
                            verification_status |-> verification_status]
    /\ UNCHANGED <<file, db_certificates, upload_directory>>
    /\ UNCHANGED <<extract_vars, verify_vars, score_vars, calls_vars, similarity_vars, rate_vars>>

\* db.query(VerificationResult).filter(VerificationResult.status == status).count()
count_results(results, status) ==
    Cardinality({i \in DOMAIN results : results[i].status = status})

statistics(certificates, results) ==
    LET total_certs == Len(certificates)
        verified == count_results(results, "VERIFIED")
        partially == count_results(results, "PARTIALLY_VERIFIED")
        not_verified == count_results(results, "NOT_VERIFIED")
    IN  [success |-> TRUE,
         stats |-> [total_certificates |-> total_certs,
                    verified |-> verified,
                    partially_verified |-> partially,
                    not_verified |-> not_verified,
                    pending |-> total_certs - (verified + partially + not_verified)]]

get_statistics ==
    /\ IF stats_cache # NoneDict
       THEN /\ response' = stats_cache
            /\ UNCHANGED stats_cache
       ELSE /\ response' = statistics(db_certificates, db_results)
            /\ stats_cache' = response'
    /\ UNCHANGED <<file, db_certificates, db_results, upload_directory>>
    /\ UNCHANGED <<extract_vars, verify_vars, score_vars, calls_vars, similarity_vars, rate_vars>>

\* the 60 seconds of the cache entry are over
CacheExpires ==
    /\ stats_cache # NoneDict
    /\ stats_cache' = NoneDict
    /\ UNCHANGED <<file, db_certificates, db_results, upload_directory, response>>
    /\ UNCHANGED <<extract_vars, verify_vars, score_vars, calls_vars, similarity_vars, rate_vars>>

ApiNext ==
    \/ \E content \in UploadContents, allowed, is_valid, processed \in BOOLEAN :
            upload_certificate(content, allowed, is_valid, processed)
    \/ \E certificate_id \in 1..MaxCertificates, allowed \in BOOLEAN,
            verification_status \in VerificationStatuses :
            verify_certificate(certificate_id, allowed, verification_status)
    \/ get_statistics
    \/ CacheExpires

SpecApi == Init /\ [][ApiNext]_vars

(***************************************************************************)
(* Properties of the v2 API (checked under SpecApi)                        *)
(***************************************************************************)
\* the certificates that have no verification result
NeverVerified ==
    {i \in DOMAIN db_certificates :
        \A k \in DOMAIN db_results :
            db_results[k].certificate_id # db_certificates[i].certificate_id}

\* C29: the "pending" figure the statistics endpoint reports is never negative and is
\* the number of uploaded certificates that were never verified, also when a
\* certificate was verified more than once.
C29_PendingCountsUnverified ==
    "stats" \in DOMAIN response =>
        /\ response.stats.pending >= 0
        /\ response.stats.pending = Cardinality(NeverVerified)

\* C30: after a successful upload the file stored under the new certificate id holds
\* exactly the bytes that were uploaded, and its length is the file_size recorded for
\* the certificate.
C30_StoredFileIsUpload ==
    "file_size" \in DOMAIN response =>
        \E i \in DOMAIN upload_directory, k \in DOMAIN db_certificates :
            /\ upload_directory[i].certificate_id = response.certificate_id
            /\ db_certificates[k].certificate_id = response.certificate_id
            /\ upload_directory[i].content = file.content
            /\ Len(upload_directory[i].content) = db_certificates[k].file_size

====
